---- MODULE Spec2Model ----
(***************************************************************************)
(* Model of the slash-command core of simple-tui: the Command Plan         *)
(* (CommandSpec.from_args), the Value Parser (CommandSpec.parse), the      *)
(* per-command handler built by App.command, and dispatch.                 *)
(*                                                                         *)
(* Strings are sequences of one-character strings, so that startswith,     *)
(* partition, join, split and the converters are computed, not assumed.    *)
(***************************************************************************)
EXTENDS Integers, Sequences, FiniteSets, TLC

(***************************************************************************)
(* Bounds of the model.                                                    *)
(***************************************************************************)
\* longest argv handed to parse
MaxArgs == 3

(***************************************************************************)
(* Text helpers (Python str methods used by the code).                     *)
(***************************************************************************)
Digits == <<"0", "1", "2", "3", "4", "5", "6", "7", "8", "9">>

IsDigit(c) == \E d \in 1..10 : Digits[d] = c

DigitVal(c) == (CHOOSE d \in 1..10 : Digits[d] = c) - 1

\* str.startswith
StartsWith(s, p) == Len(s) >= Len(p) /\ SubSeq(s, 1, Len(p)) = p

\* index of the first occurrence of character c in s, 0 when absent
FirstIndex(s, c) ==
    IF \E k \in 1..Len(s) : s[k] = c
    THEN CHOOSE k \in 1..Len(s) : s[k] = c /\ \A j \in 1..(k - 1) : s[j] # c
    ELSE 0

\* Partition with the separator left at the head of val
PartitionKeepsEq(tok) ==
    LET k == FirstIndex(tok, "=")
    IN IF k = 0
       THEN [key |-> tok, eq |-> FALSE, val |-> <<>>]
       ELSE [key |-> SubSeq(tok, 1, k - 1), eq |-> TRUE,
             val |-> SubSeq(tok, k, Len(tok))]

\* str.partition("="): key, whether the separator was found, val
Partition(tok) ==
    LET k == FirstIndex(tok, "=")
    IN IF k = 0
       THEN [key |-> tok, eq |-> FALSE, val |-> <<>>]
       ELSE [key |-> SubSeq(tok, 1, k - 1), eq |-> TRUE,
             val |-> SubSeq(tok, k + 1, Len(tok))]

\* sep.join(parts)
RECURSIVE Join(_, _)
Join(parts, sep) ==
    IF parts = <<>> THEN <<>>
    ELSE IF Len(parts) = 1 THEN parts[1]
    ELSE parts[1] \o sep \o Join(Tail(parts), sep)

\* str.strip() over the blanks of the model's alphabet
RECURSIVE LStrip(_)
LStrip(s) == IF s # <<>> /\ s[1] = " " THEN LStrip(Tail(s)) ELSE s

RECURSIVE RStrip(_)
RStrip(s) ==
    IF s # <<>> /\ s[Len(s)] = " " THEN RStrip(SubSeq(s, 1, Len(s) - 1)) ELSE s

Strip(s) == RStrip(LStrip(s))

\* str.split(c): the pieces between occurrences of c, empty pieces included
RECURSIVE Split(_, _)
Split(s, c) ==
    LET k == FirstIndex(s, c)
    IN IF k = 0 THEN <<s>>
       ELSE <<SubSeq(s, 1, k - 1)>> \o Split(SubSeq(s, k + 1, Len(s)), c)

\* [x.strip() for x in ans.split(',') if x.strip()]
RECURSIVE StripNonEmpty(_)
StripNonEmpty(parts) ==
    IF parts = <<>> THEN <<>>
    ELSE IF Strip(parts[1]) = <<>> THEN StripNonEmpty(Tail(parts))
    ELSE <<Strip(parts[1])>> \o StripNonEmpty(Tail(parts))

RawItems(ans) == StripNonEmpty(Split(ans, ","))

(***************************************************************************)
(* Values.  A scalar is a converted value; a Val is what a binding holds:  *)
(* None, one scalar, or a list of scalars.                                 *)
(***************************************************************************)
StrVal(s) == [t |-> "str", n |-> 0, s |-> s]
IntVal(n) == [t |-> "int", n |-> n, s |-> <<>>]
FloatVal(n) == [t |-> "float", n |-> n, s |-> <<>>]
PathVal(s) == [t |-> "path", n |-> 0, s |-> s]

None == [t |-> "none", items |-> <<>>]
One(x) == [t |-> "one", items |-> <<x>>]
List(xs) == [t |-> "list", items |-> xs]

\* a decimal literal as int() and float() accept it over the model's
\* alphabet: surrounding blanks, an optional minus sign, one or more digits
IsNumber(raw) ==
    LET s == Strip(raw)
        body == IF s # <<>> /\ s[1] = "-" THEN Tail(s) ELSE s
    IN body # <<>> /\ \A k \in 1..Len(body) : IsDigit(body[k])

RECURSIVE DigitsValue(_)
DigitsValue(ds) ==
    IF ds = <<>> THEN 0
    ELSE 10 * DigitsValue(SubSeq(ds, 1, Len(ds) - 1)) + DigitVal(ds[Len(ds)])

NumberOf(raw) ==
    LET s == Strip(raw)
    IN IF s[1] = "-" THEN 0 - DigitsValue(Tail(s)) ELSE DigitsValue(s)

\* _converter_for(tp)(raw): ok is FALSE when the converter raises
Convert(kind, raw) ==
    CASE kind = "int" ->
           IF IsNumber(raw) THEN [ok |-> TRUE, v |-> IntVal(NumberOf(raw))]
           ELSE [ok |-> FALSE, v |-> StrVal(raw)]
      [] kind = "float" ->
           IF IsNumber(raw) THEN [ok |-> TRUE, v |-> FloatVal(NumberOf(raw))]
           ELSE [ok |-> FALSE, v |-> StrVal(raw)]
      [] kind = "path" ->
           \* pathlib.Path("") is the current directory "."
           [ok |-> TRUE, v |-> PathVal(IF raw = <<>> THEN <<".">> ELSE raw)]
      [] OTHER -> [ok |-> TRUE, v |-> StrVal(raw)]

RECURSIVE NatText(_)
NatText(n) ==
    IF n < 10 THEN <<Digits[n + 1]>>
    ELSE NatText(n \div 10) \o <<Digits[(n % 10) + 1]>>

IntText(n) == IF n < 0 THEN <<"-">> \o NatText(0 - n) ELSE NatText(n)

\* str(x) of a scalar
ScalarStr(x) ==
    CASE x.t = "int" -> IntText(x.n)
      [] x.t = "float" -> IntText(x.n) \o <<".", "0">>
      [] OTHER -> x.s

\* repr(x) of a scalar, as it appears inside str(list)
ScalarRepr(x) ==
    CASE x.t = "str" -> <<"'">> \o x.s \o <<"'">>
      [] x.t = "path" ->
           <<"P", "o", "s", "i", "x", "P", "a", "t", "h", "(", "'">>
               \o x.s \o <<"'", ")">>
      [] OTHER -> ScalarStr(x)

\* [repr(x) for x in xs]
Reprs(xs) == [j \in 1..Len(xs) |-> ScalarRepr(xs[j])]

\* [str(x) for x in xs]
Strs(xs) == [j \in 1..Len(xs) |-> ScalarStr(xs[j])]

\* str(v) of a non-None binding
PyStr(v) ==
    IF v.t = "list"
    THEN <<"[">> \o Join(Reprs(v.items), <<",", " ">>) \o <<"]">>
    ELSE ScalarStr(v.items[1])

(***************************************************************************)
(* Argument declarations (Arg / Opt) and the Command Plan.                 *)
(***************************************************************************)
\* Arg(name, type, default, history, prompt, repeat, multiline); opt marks
\* an instance of the Opt subclass
ArgDecl(name, type, default, history, prompt, repeat, multiline, opt) ==
    [name |-> name, type |-> type, default |-> default, history |-> history,
     prompt |-> prompt, repeat |-> repeat, multiline |-> multiline,
     opt |-> opt]

NoFlag == <<>>

\* IsOptionalArg without the isinstance test
IsOptionalArgByDefault(a) == a.default # None

\* the optional branch of from_args: isinstance(arg, Opt), or a default
\* that is not None
IsOptionalArg(a) == a.opt \/ a.default # None

IsRequiredArg(a) == ~IsOptionalArg(a)

\* ParamPlan of a required declaration
RequiredPlan(a) ==
    [name |-> a.name, flag |-> NoFlag, convert |-> a.type, default |-> None,
     required |-> TRUE, repeat |-> a.repeat, prompt |-> a.prompt,
     multiline |-> a.multiline, definition |-> a]

\* ParamPlan of an optional declaration
OptionalPlan(o) ==
    [name |-> o.name, flag |-> <<"-", "-">> \o o.name, convert |-> o.type,
     default |-> o.default, required |-> FALSE, repeat |-> o.repeat,
     prompt |-> o.prompt, multiline |-> o.multiline, definition |-> o]

\* CommandSpec.from_args: the params list, requireds first, then optionals
FromArgs(args) ==
    LET requireds == SelectSeq(args, IsRequiredArg)
        optionals == SelectSeq(args, IsOptionalArg)
    IN [k \in 1..Len(requireds) |-> RequiredPlan(requireds[k])]
           \o [k \in 1..Len(optionals) |-> OptionalPlan(optionals[k])]

\* CommandSpec.runtime_plan: the per-call mutable part of each entry
RuntimePlan(params) ==
    [k \in 1..Len(params) |->
        [provided |-> FALSE,
         value |-> IF params[k].repeat THEN List(<<>>) ELSE None]]

(***************************************************************************)
(* CommandSpec.parse.                                                      *)
(***************************************************************************)
EmptyMap == [k \in {} |-> None]

\* values[name] = v
Put(values, name, v) == [k \in (DOMAIN values) \cup {name} |->
                            IF k = name THEN v ELSE values[k]]

\* values.setdefault(name, []).append(x)
PutAppend(values, name, x) ==
    LET old == IF name \in DOMAIN values THEN values[name] ELSE List(<<>>)
    IN Put(values, name, List(old.items \o <<x>>))

\* an error text handed to on_error: a message template and its argument
ErrorText(msg, arg) == [msg |-> msg, arg |-> arg]

\* lines 145-161: optional declarations start at their default
InitialValue(p) ==
    IF p.repeat
    THEN IF p.default = None THEN List(<<>>)
         ELSE IF p.default.t = "list" THEN List(p.default.items)
         ELSE List(p.default.items)
    ELSE p.default

RECURSIVE InitialBindings(_, _, _)
InitialBindings(params, k, st) ==
    IF k > Len(params) THEN st
    ELSE IF params[k].required THEN InitialBindings(params, k + 1, st)
    ELSE InitialBindings(params, k + 1,
            [st EXCEPT !.values = Put(@, params[k].name,
                                      InitialValue(params[k])),
                       !.runtime[k].value = InitialValue(params[k])])

\* next_pos_index (1-based): the first entry at or after start that is not
\* provided, Len + 1 when there is none
RECURSIVE next_pos_index(_, _)
next_pos_index(runtime, start) ==
    IF start <= Len(runtime) /\ runtime[start].provided
    THEN next_pos_index(runtime, start + 1)
    ELSE start

\* plan_by_flag.get(key): index of the entry carrying that flag, 0 if none
PlanByFlag(params, key) ==
    IF \E k \in 1..Len(params) : params[k].flag # NoFlag /\ params[k].flag = key
    THEN CHOOSE k \in 1..Len(params) :
            /\ params[k].flag # NoFlag /\ params[k].flag = key
            /\ \A j \in (k + 1)..Len(params) : params[j].flag # key
    ELSE 0

\* lines 187-198 and 210-221 after the conversion: c is what convert gave
\* for the raw value; mark says whether entry["provided"] is set
BindConverted(params, st, k, c, label, mark) ==
    IF ~c.ok
    THEN [st EXCEPT !.errors = Append(@, ErrorText("Invalid value for %", label)),
                    !.failed = TRUE]
    ELSE IF params[k].repeat
    THEN [st EXCEPT !.values = PutAppend(@, params[k].name, c.v),
                    !.runtime[k].value = List(@.items \o <<c.v>>),
                    !.runtime[k].provided = @ \/ mark]
    ELSE [st EXCEPT !.values = Put(@, params[k].name, One(c.v)),
                    !.runtime[k].value = One(c.v),
                    !.runtime[k].provided = @ \/ mark]

\* Bind without entry["provided"] = True
BindNotProvided(params, st, k, raw, label) ==
    BindConverted(params, st, k, Convert(params[k].convert, raw), label, FALSE)

\* lines 187-198 and 210-221: convert raw and bind it to entry k
Bind(params, st, k, raw, label) ==
    BindConverted(params, st, k, Convert(params[k].convert, raw), label, TRUE)

Fail(st, msg, arg) ==
    [st EXCEPT !.errors = Append(@, ErrorText(msg, arg)), !.failed = TRUE]

\* FlagBind with the test for a following token made before the lookup
FlagBindValueFirst(params, argv, st, part, k) ==
    IF ~part.eq /\ st.i + 1 > Len(argv)
    THEN Fail(st, "Option % requires a value", part.key)
    ELSE IF k = 0 THEN Fail(st, "Unknown option: %", part.key)
    ELSE IF part.eq
    THEN [Bind(params, st, k, part.val, part.key) EXCEPT !.i = st.i + 1]
    ELSE [Bind(params, st, k, argv[st.i + 1], part.key) EXCEPT !.i = st.i + 2]

\* lines 175-198: the flag token split into part, k the entry of its key
FlagBind(params, argv, st, part, k) ==
    IF k = 0 THEN Fail(st, "Unknown option: %", part.key)
    ELSE IF part.eq
    THEN [Bind(params, st, k, part.val, part.key) EXCEPT !.i = st.i + 1]
    ELSE IF st.i + 1 > Len(argv)
    THEN Fail(st, "Option % requires a value", part.key)
    ELSE [Bind(params, st, k, argv[st.i + 1], part.key) EXCEPT !.i = st.i + 2]

FlagPart(params, argv, st, part) ==
    FlagBind(params, argv, st, part, PlanByFlag(params, part.key))

\* lines 173-198: a token that starts with "--"
FlagToken(params, argv, st) == FlagPart(params, argv, st, Partition(argv[st.i]))

\* line 206: the entry takes all remaining tokens as one value
Swallows(p) == p.multiline /\ ~p.repeat

\* lines 222-223: after the bind, the cursor and the token index move on
PositionalAdvance(params, argv, st, cur, bound) ==
    IF bound.failed THEN bound
    ELSE [bound EXCEPT
            !.pos_cursor = IF params[cur].repeat THEN cur ELSE cur + 1,
            !.i = IF Swallows(params[cur]) THEN Len(argv) + 1 ELSE st.i + 1]

\* lines 201-221: the token goes to entry cur
PositionalBind(params, argv, st, cur) ==
    IF cur > Len(params)
    THEN Fail([st EXCEPT !.pos_cursor = cur],
              "Too many positional arguments", <<>>)
    ELSE PositionalAdvance(params, argv, st, cur,
            Bind(params, [st EXCEPT !.pos_cursor = cur], cur,
                 IF Swallows(params[cur])
                 THEN Join(SubSeq(argv, st.i, Len(argv)), <<" ">>)
                 ELSE argv[st.i],
                 params[cur].name))

\* lines 199-223: a token that does not start with "--"
PositionalToken(params, argv, st) ==
    PositionalBind(params, argv, st, next_pos_index(st.runtime, st.pos_cursor))

\* lines 172-224: one iteration of the scan loop, on token argv[st.i]
ScanStep(params, argv, st) ==
    IF StartsWith(argv[st.i], <<"-", "-">>)
    THEN FlagToken(params, argv, st)
    ELSE PositionalToken(params, argv, st)

\* lines 171-224: the token scan
RECURSIVE ScanTokens(_, _, _)
ScanTokens(params, argv, st) ==
    IF st.failed \/ st.i > Len(argv) THEN st
    ELSE ScanTokens(params, argv, ScanStep(params, argv, st))

\* lines 139-169: the binding state before the first token
ScanStart(params) ==
    LET st0 == [runtime |-> RuntimePlan(params), values |-> EmptyMap,
                pos_cursor |-> 1, i |-> 1, errors |-> <<>>, asked |-> <<>>,
                failed |-> FALSE]
        st1 == InitialBindings(params, 1, st0)
    IN [st1 EXCEPT !.pos_cursor = next_pos_index(st1.runtime, 1)]

\* lines 139-224: the binding state after the token scan
Scan(params, argv) == ScanTokens(params, argv, ScanStart(params))

(***************************************************************************)
(* Interactive resolution (lines 226-297).  prompt_fn is an oracle: its    *)
(* k-th call of one parse returns answers[k]; an answer is the no-answer   *)
(* sentinel None or a string.  A script that has run out answers None      *)
(* (end of input).                                                         *)
(***************************************************************************)
NoAnswer == [none |-> TRUE, s |-> <<>>]
Answer(s) == [none |-> FALSE, s |-> s]

AnswerAt(answers, k) == IF k <= Len(answers) THEN answers[k] ELSE NoAnswer

\* x not in (None, [], {})
NonEmptyVal(v) == v # None /\ v # List(<<>>)

\* MissingRequired without the test of entry["provided"]
MissingRequiredAll(params, runtime) ==
    LET Req(k) == params[k].required
        idx == SelectSeq([k \in 1..Len(params) |-> k], Req)
    IN [j \in 1..Len(idx) |-> params[idx[j]].name]

\* lines 226-228 and 287-291
MissingRequired(params, runtime) ==
    LET Unset(k) == params[k].required /\ ~runtime[k].provided
        idx == SelectSeq([k \in 1..Len(params) |-> k], Unset)
    IN [j \in 1..Len(idx) |-> params[idx[j]].name]

\* lines 229-237
NeedsPrompt(params, runtime, interactive) ==
    LET Needs(k) == params[k].prompt
                    /\ (~runtime[k].provided
                        \/ (interactive /\ params[k].multiline))
    IN SelectSeq([k \in 1..Len(params) |-> k], Needs)

\* ToPrompt without the branch of line 245
ToPromptUnsetOnly(params, runtime) ==
    LET should_prompt(k) ==
            (params[k].required \/ params[k].prompt) /\ ~runtime[k].provided
    IN SelectSeq([k \in 1..Len(params) |-> k], should_prompt)

\* lines 240-248: the indices to prompt, in plan order
ToPrompt(params, runtime) ==
    LET should_prompt(k) ==
            \/ (params[k].required \/ params[k].prompt) /\ ~runtime[k].provided
            \/ params[k].prompt /\ params[k].multiline
    IN SelectSeq([k \in 1..Len(params) |-> k], should_prompt)

\* lines 252-261: the pre-filled text offered with the prompt
DefaultText(p, entry_value) ==
    IF NonEmptyVal(entry_value)
    THEN IF p.repeat
         THEN Answer(Join(Strs(entry_value.items), <<",", " ">>))
         ELSE Answer(PyStr(entry_value))
    ELSE IF NonEmptyVal(p.definition.default)
    THEN Answer(PyStr(p.definition.default))
    ELSE NoAnswer

\* [plan.convert(item) for item in raw_items]
ConvertItems(kind, raw_items) ==
    [j \in 1..Len(raw_items) |-> Convert(kind, raw_items[j])]

\* IsCanceled taking None for an ordinary answer
IsCanceledNever(ans) == FALSE

\* line 263: ans is None
IsCanceled(ans) == ans.none

\* KeepsValue with the empty answer converted like any other
KeepsValueNever(p, ans) == FALSE

\* line 266: not ans and not entry["required"]
KeepsValue(p, ans) == ans.s = <<>> /\ ~p.required

\* PromptRepeat with the items that do not convert left out
PromptRepeatSkipsInvalid(p, k, st, conv) ==
    IF \A j \in 1..Len(conv) : ~conv[j].ok
    THEN [st EXCEPT !.runtime[k].provided = TRUE]
    ELSE [st EXCEPT
            !.values = Put(@, p.name,
                List([j \in 1..Len(SelectSeq(conv, LAMBDA c : c.ok)) |->
                        SelectSeq(conv, LAMBDA c : c.ok)[j].v])),
            !.runtime[k].provided = TRUE]

\* lines 271-281: a repeat entry takes the converted items of the answer
PromptRepeat(p, k, st, conv) ==
    IF \E j \in 1..Len(conv) : ~conv[j].ok
    THEN Fail(st, "Invalid value for %", p.name)
    ELSE IF conv = <<>> /\ p.required
    THEN Fail(st, "Missing: %", p.name)
    ELSE IF conv # <<>>
    THEN [st EXCEPT
            !.values = Put(@, p.name, List([j \in 1..Len(conv) |-> conv[j].v])),
            !.runtime[k].value = List([j \in 1..Len(conv) |-> conv[j].v]),
            !.runtime[k].provided = TRUE]
    ELSE [st EXCEPT !.runtime[k].provided = TRUE]

\* lines 282-286: a scalar entry takes the converted answer
PromptScalar(p, k, st, c) ==
    IF ~c.ok THEN Fail(st, "Invalid value for %", p.name)
    ELSE [st EXCEPT !.values = Put(@, p.name, One(c.v)),
                    !.runtime[k].value = One(c.v),
                    !.runtime[k].provided = TRUE]

\* lines 263-286: what the answer does; st already records the prompt
PromptAnswer(p, k, st, ans) ==
    IF IsCanceled(ans) THEN Fail(st, "Canceled", <<>>)
    ELSE IF KeepsValue(p, ans)
    THEN [st EXCEPT !.runtime[k].provided = TRUE,
                    !.runtime[k].value = st.runtime[k].value]
    ELSE IF p.repeat
    THEN PromptRepeat(p, k, st, ConvertItems(p.convert, RawItems(ans.s)))
    ELSE PromptScalar(p, k, st, Convert(p.convert, ans.s))

\* lines 249-286: one iteration of the prompt loop, for plan entry k
PromptOne(params, st, k, ans) ==
    PromptAnswer(params[k], k,
        [st EXCEPT !.asked = Append(@, [name |-> params[k].name,
            default_text |-> DefaultText(params[k], st.runtime[k].value)])],
        ans)

RECURSIVE PromptLoop(_, _, _, _, _)
PromptLoop(params, to_prompt, j, st, answers) ==
    IF st.failed \/ j > Len(to_prompt) THEN st
    ELSE PromptLoop(params, to_prompt, j + 1,
                    PromptOne(params, st, to_prompt[j], AnswerAt(answers, j)),
                    answers)

\* lines 287-294: the check after the prompt loop
AfterPrompts(params, after) ==
    IF after.failed THEN after
    ELSE IF MissingRequired(params, after.runtime) # <<>>
    THEN Fail(after, "Missing: %",
              Join(MissingRequired(params, after.runtime), <<" ">>))
    ELSE after

\* ResolveMissing without the branch of lines 295-297
ResolveMissingLenient(params, st, interactive, has_prompt_fn, answers) ==
    IF (MissingRequired(params, st.runtime) # <<>>
        \/ NeedsPrompt(params, st.runtime, interactive) # <<>>)
       /\ interactive /\ has_prompt_fn
    THEN AfterPrompts(params,
            PromptLoop(params, ToPrompt(params, st.runtime), 1, st, answers))
    ELSE st

\* lines 226-297: resolution after the scan; has_prompt_fn says whether a
\* prompt_fn was passed
ResolveMissing(params, st, interactive, has_prompt_fn, answers) ==
    IF (MissingRequired(params, st.runtime) # <<>>
        \/ NeedsPrompt(params, st.runtime, interactive) # <<>>)
       /\ interactive /\ has_prompt_fn
    THEN AfterPrompts(params,
            PromptLoop(params, ToPrompt(params, st.runtime), 1, st, answers))
    ELSE IF MissingRequired(params, st.runtime) # <<>>
    THEN Fail(st, "Missing: %",
              Join(MissingRequired(params, st.runtime), <<" ">>))
    ELSE st

\* what parse returns: None, or the values mapping
NoMapping == [isNone |-> TRUE, map |-> EmptyMap]
Mapping(values) == [isNone |-> FALSE, map |-> values]

\* lines 224-225 and 299: what parse hands back from its last binding state
Outcome(final) ==
    [ret |-> IF final.failed THEN NoMapping ELSE Mapping(final.values),
     errors |-> final.errors,
     asked |-> final.asked,
     runtime |-> final.runtime]

\* AfterScan without the return of a failed scan
AfterScanGoesOn(params, scanned, interactive, has_prompt_fn, answers) ==
    ResolveMissing(params, scanned, interactive, has_prompt_fn, answers)

\* lines 224-299: a failed scan returns at once, else resolution follows
AfterScan(params, scanned, interactive, has_prompt_fn, answers) ==
    IF scanned.failed THEN scanned
    ELSE ResolveMissing(params, scanned, interactive, has_prompt_fn, answers)

\* CommandSpec.parse(argv, on_error, prompt_fn, interactive): the returned
\* value, the texts handed to on_error and the prompts asked, in order
Parse(params, argv, interactive, has_prompt_fn, answers) ==
    Outcome(AfterScan(params, Scan(params, argv), interactive, has_prompt_fn,
                      answers))

\* the entries of to_prompt after a scan that ended in state scanned
PromptsAfter(params, scanned, interactive, has_prompt_fn) ==
    IF scanned.failed \/ ~(interactive /\ has_prompt_fn) THEN 0
    ELSE IF MissingRequired(params, scanned.runtime) = <<>>
            /\ NeedsPrompt(params, scanned.runtime, interactive) = <<>>
    THEN 0
    ELSE Len(ToPrompt(params, scanned.runtime))

\* the number of prompt_fn calls a parse can make: the entries of to_prompt
PromptCount(params, argv, interactive, has_prompt_fn) ==
    PromptsAfter(params, Scan(params, argv), interactive, has_prompt_fn)

(***************************************************************************)
(* The tokenizer: shlex.split in POSIX mode.                               *)
(***************************************************************************)
IsQuote(c) == c = "\"" \/ c = "'"

\* one character of shlex's state machine.  state is "none" (between
\* tokens), "word", a quote character, or "escape"; back is the state an
\* escape returns to; quoted records that the token saw a quote
LexChar(lx, c) ==
    CASE lx.state = "none" ->
           IF c = " " THEN lx
           ELSE IF c = "\\" THEN [lx EXCEPT !.state = "escape", !.back = "word"]
           ELSE IF IsQuote(c) THEN [lx EXCEPT !.state = c, !.quoted = TRUE]
           ELSE [lx EXCEPT !.state = "word", !.token = <<c>>]
      [] lx.state = "word" ->
           IF c = " "
           THEN [lx EXCEPT !.state = "none", !.token = <<>>, !.quoted = FALSE,
                           !.out = IF lx.token # <<>> \/ lx.quoted
                                   THEN Append(@, lx.token) ELSE @]
           ELSE IF c = "\\" THEN [lx EXCEPT !.state = "escape", !.back = "word"]
           ELSE IF IsQuote(c) THEN [lx EXCEPT !.state = c, !.quoted = TRUE]
           ELSE [lx EXCEPT !.token = Append(@, c)]
      [] lx.state = "escape" ->
           [lx EXCEPT !.state = lx.back,
                      !.token = IF IsQuote(lx.back) /\ c # "\\" /\ c # lx.back
                                THEN @ \o <<"\\", c>> ELSE Append(@, c)]
      [] lx.state = "'" ->
           IF c = "'" THEN [lx EXCEPT !.state = "word"]
           ELSE [lx EXCEPT !.token = Append(@, c)]
      [] OTHER ->
           IF c = "\"" THEN [lx EXCEPT !.state = "word"]
           ELSE IF c = "\\" THEN [lx EXCEPT !.state = "escape", !.back = "\""]
           ELSE [lx EXCEPT !.token = Append(@, c)]

RECURSIVE LexFrom(_, _, _)
LexFrom(s, k, lx) ==
    IF k > Len(s) THEN lx ELSE LexFrom(s, k + 1, LexChar(lx, s[k]))

\* shlex.split(s): ok is FALSE when it raises ValueError, with its message
ShlexSplit(s) ==
    LET lx == LexFrom(s, 1, [state |-> "none", back |-> "word",
                             token |-> <<>>, quoted |-> FALSE, out |-> <<>>])
    IN IF IsQuote(lx.state)
       THEN [ok |-> FALSE, parts |-> <<>>, exc |-> <<"No closing quotation">>]
       ELSE IF lx.state = "escape"
       THEN [ok |-> FALSE, parts |-> <<>>, exc |-> <<"No escaped character">>]
       ELSE [ok |-> TRUE, exc |-> <<>>,
             parts |-> IF lx.state = "word" /\ (lx.token # <<>> \/ lx.quoted)
                       THEN Append(lx.out, lx.token) ELSE lx.out]

(***************************************************************************)
(* The commands registered with the App, and the inputs of the model.      *)
(***************************************************************************)
x == <<"x">>
y == <<"y">>
h == <<"h">>
t == <<"t">>

cmdTask == <<"/", "t", "a", "s", "k">>
cmdAsk == <<"/", "a", "s", "k">>
cmdTag == <<"/", "t", "a", "g">>
cmdNote == <<"/", "n", "o", "t", "e">>
cmdSay == <<"/", "s", "a", "y">>
cmdSet == <<"/", "s", "e", "t">>
cmdNum == <<"/", "n", "u", "m">>
cmdOpen == <<"/", "o", "p", "e", "n">>
cmdNoop == <<"/", "n", "o", "o", "p">>

\* the args list each @app.command declares
Declared ==
    (cmdTask :> <<ArgDecl(x, "str", None, TRUE, FALSE, FALSE, FALSE, FALSE),
                  ArgDecl(h, "int", One(IntVal(1)), FALSE, FALSE, FALSE, FALSE, TRUE)>>)
    @@ (cmdAsk :> <<ArgDecl(x, "str", None, TRUE, TRUE, FALSE, FALSE, FALSE),
                    ArgDecl(h, "int", One(IntVal(1)), TRUE, TRUE, FALSE, FALSE, TRUE)>>)
    @@ (cmdTag :> <<ArgDecl(h, "str", None, FALSE, FALSE, TRUE, FALSE, TRUE),
                    ArgDecl(x, "str", None, TRUE, FALSE, TRUE, FALSE, FALSE)>>)
    @@ (cmdNote :> <<ArgDecl(x, "str", None, TRUE, TRUE, FALSE, FALSE, FALSE),
                     ArgDecl(y, "str", None, FALSE, TRUE, FALSE, TRUE, FALSE)>>)
    @@ (cmdSay :> <<ArgDecl(x, "str", None, FALSE, FALSE, FALSE, FALSE, FALSE),
                    ArgDecl(y, "str", None, FALSE, FALSE, FALSE, TRUE, FALSE)>>)
    @@ (cmdSet :> <<ArgDecl(x, "str", None, FALSE, TRUE, FALSE, FALSE, FALSE),
                    ArgDecl(y, "str", None, FALSE, TRUE, FALSE, FALSE, FALSE)>>)
    @@ (cmdNum :> <<ArgDecl(h, "str", List(<<StrVal(<<"a">>)>>), FALSE, FALSE, TRUE, FALSE, TRUE),
                    ArgDecl(x, "int", None, TRUE, TRUE, TRUE, FALSE, FALSE),
                    ArgDecl(y, "float", None, FALSE, TRUE, FALSE, FALSE, FALSE)>>)
    @@ (cmdOpen :> <<ArgDecl(x, "path", None, FALSE, TRUE, FALSE, TRUE, FALSE),
                     ArgDecl(h, "str", One(StrVal(<<"a">>)), FALSE, TRUE, FALSE, TRUE, FALSE),
                     ArgDecl(t, "str", None, TRUE, TRUE, FALSE, FALSE, TRUE)>>)
    @@ (cmdNoop :> <<>>)

Commands == DOMAIN Declared

\* CommandRegistry._handlers: name -> the spec compiled at registration
Registry == [c \in Commands |-> FromArgs(Declared[c])]

\* CommandRegistry.resolve(name)
resolve(name) == IF name \in Commands THEN name ELSE <<>>

\* the tokens argv is drawn from
Tokens ==
    { <<"a">>, <<"3">>, <<"-", "-", "h">>, <<"-", "-", "h", "=", "3">>,
      <<"-", "-", "t">> }

RECURSIVE SeqsUpTo(_, _)
SeqsUpTo(S, n) ==
    IF n = 0 THEN {<<>>}
    ELSE LET shorter == SeqsUpTo(S, n - 1)
         IN shorter \cup {Append(q, e) : q \in {r \in shorter : Len(r) = n - 1}, e \in S}

SeqsOfLen(S, n) == {q \in SeqsUpTo(S, n) : Len(q) = n}

Argvs == SeqsUpTo(Tokens, MaxArgs)

\* what the prompt function may answer
Answers ==
    { NoAnswer, Answer(<<>>), Answer(<<"a">>), Answer(<<"3">>),
      Answer(<<"a", ",", "3">>) }

\* the first words of the lines typed: every registered name, a registered
\* name without its slash, and an unregistered name
FirstWords == Commands \cup { <<"t", "a", "s", "k">>, <<"/", "z">> }

\* lines that are not a plain space-joined word list
OddLines ==
    { <<>>, <<" ">>,
      cmdSay \o <<" ", "\"", "a", " ", "3", "\"">>,
      cmdSay \o <<" ", "\"", "a">>,
      cmdSay \o <<" ", "a", "\\">>,
      cmdTask \o <<" ", "'", "a", " ", "3", "'", " ", "-", "-", "h", "=", "3">> }

Lines == {Join(<<w>> \o argv, <<" ">>) : w \in FirstWords, argv \in Argvs}
             \cup OddLines

(***************************************************************************)
(* The History Store (HistoryStore.data): (command, arg, value) -> the     *)
(* time of its last add.                                                   *)
(***************************************************************************)
\* longest the model lets the clock of the History Store run
MaxClock == 4

\* HistoryAdd that leaves the time of a value already stored as it was
HistoryAddKeepsFirst(data, command, arg, value, now) ==
    [k \in (DOMAIN data) \cup {<<command, arg, value>>} |->
        IF k \in DOMAIN data THEN data[k] ELSE now]

\* HistoryStore.add(command, arg, value) at time now
HistoryAdd(data, command, arg, value, now) ==
    [k \in (DOMAIN data) \cup {<<command, arg, value>>} |->
        IF k = <<command, arg, value>> THEN now ELSE data[k]]

\* CommandSpec.history_entries(values): (name, value) of every declaration
\* with history=True whose value is not None, in plan order
HistoryEntries(params, values) ==
    LET Recorded(k) == /\ params[k].definition.history
                       /\ params[k].name \in DOMAIN values
                       /\ values[params[k].name] # None
        idx == SelectSeq([k \in 1..Len(params) |-> k], Recorded)
    IN [j \in 1..Len(idx) |->
           [name |-> params[idx[j]].name, val |-> values[params[idx[j]].name]]]

\* lines 271-272: self.history.add(cmd_name, arg_name, str(recorded_value))
\* for each entry, one clock tick per add
RECURSIVE RecordHistory(_, _, _, _)
RecordHistory(data, command, entries, now) ==
    IF entries = <<>> THEN data
    ELSE RecordHistory(HistoryAdd(data, command, entries[1].name,
                                  PyStr(entries[1].val), now),
                       command, Tail(entries), now + 1)

\* line 276: the keyword arguments fn is called with, one per declared name
Kwargs(params, values) ==
    [n \in {params[k].name : k \in 1..Len(params)} |->
        IF n \in DOMAIN values THEN values[n] ELSE None]

(***************************************************************************)
(* State.                                                                  *)
(***************************************************************************)
VARIABLES
    interactive_prompts, \* App.interactive_prompts
    history,             \* App.history.data
    clock,               \* the time the next HistoryStore.add reads
    phase,               \* "idle", or "returned" once an operation has run
    op,                  \* the operation that ran: parse, handler, dispatch
    call,                \* its inputs
    ret,                 \* what parse returned
    errors,              \* the texts handed to the error sink, in order
    asked,               \* the prompt_fn calls, in order
    invoked,             \* the calls of the user's command function
    raised,              \* the exception that left the operation, "" if none
    unawaited,           \* coroutine objects created and never awaited
    session,             \* the App.run or App.run_script call under way:
                         \* its kind and status, the hooks registered, the
                         \* script (or the input read so far), the commands
                         \* still to run, the lines done, and the arguments
    events,              \* what that call did, in order
    completion,          \* the last get_completions call and what it gave
    plan,                \* a CommandSpec built by from_args and used by
                         \* several parse calls: its args and params, the
                         \* number of parse calls made on it, the mapping an
                         \* earlier call returned, and the last call
    lookup               \* the HistoryStore.add calls made on a store, in
                         \* order, and the last HistoryStore.get call

vars == <<interactive_prompts, history, clock, phase, op, call, ret, errors,
          asked, invoked, raised, unawaited, session, events, completion,
          plan, lookup>>

\* no run or run_script call has been made
NoSession == [kind |-> "none", status |-> "none", hooks |-> {},
              script |-> <<>>, pending |-> <<>>, lines |-> 0,
              fail_on_error |-> FALSE, original_interactive |-> FALSE]

\* no get_completions call has been made
NoCompletion ==
    [text |-> <<>>, at |-> 0, kind |-> "none", items |-> <<>>,
     command |-> <<>>, arg |-> <<>>, prefix |-> <<>>, token |-> <<>>,
     start |-> 0, entries |-> <<>>, arg_values |-> EmptyMap]

NoCall == [command |-> <<>>, argv |-> <<>>, line |-> <<>>,
           interactive |-> FALSE, has_prompt_fn |-> FALSE, answers |-> <<>>]

\* from_args has not been called
NoPlan == [args |-> <<>>, params |-> <<>>, built |-> FALSE, calls |-> 0,
           earlier |-> NoMapping, shares |-> {}, last |-> NoCall,
           ret |-> NoMapping, errors |-> <<>>]

\* no call has been made on the store
NoLookup == [adds |-> <<>>, command |-> <<>>, arg |-> <<>>, limit |-> 0,
             got |-> FALSE, result |-> <<>>]

Init ==
    /\ interactive_prompts \in BOOLEAN
    /\ history = EmptyMap
    /\ clock = 1
    /\ phase = "idle"
    /\ op = "none"
    /\ call = NoCall
    /\ ret = NoMapping
    /\ errors = <<>>
    /\ asked = <<>>
    /\ invoked = <<>>
    /\ raised = ""
    /\ unawaited = 0
    /\ session = NoSession
    /\ events = <<>>
    /\ completion = NoCompletion
    /\ plan = NoPlan
    /\ lookup = NoLookup

(***************************************************************************)
(* Operations.                                                             *)
(***************************************************************************)
\* spec.parse(argv, on_error=..., prompt_fn=..., interactive=...) called
\* directly on the plan of command c
ParseWith(c, argv, interactive, has_prompt_fn, answers) ==
    /\ phase = "idle"
    /\ \E r \in {Parse(Registry[c], argv, interactive, has_prompt_fn, answers)} :
          /\ ret' = r.ret
          /\ errors' = r.errors
          /\ asked' = r.asked
    /\ phase' = "returned"
    /\ op' = "parse"
    /\ call' = [command |-> c, argv |-> argv, line |-> <<>>,
                interactive |-> interactive, has_prompt_fn |-> has_prompt_fn,
                answers |-> answers]
    /\ UNCHANGED <<interactive_prompts, history, clock, invoked, raised,
                   unawaited, session, events,
                   completion, plan, lookup>>

\* whether `await v` can proceed for the value v that parse returned: parse
\* is a plain function returning a dict or None, neither of which has
\* __await__, so the await expression raises TypeError
Awaitable(v) == FALSE

\* the handler coroutine of command c (App.command.handler) run to its end
\* by a caller that awaits it
HandlerWith(c, argv, answers) ==
    /\ phase = "idle"
    /\ \E r \in {Parse(Registry[c], argv, interactive_prompts,
                        interactive_prompts, answers)} :
          /\ ret' = r.ret
          /\ errors' = r.errors
          /\ asked' = r.asked
          /\ IF ~Awaitable(r.ret)
             THEN /\ raised' = "TypeError"
                  /\ UNCHANGED <<history, clock, invoked,
                   completion, plan, lookup>>
             ELSE IF r.ret.isNone
             THEN /\ raised' = ""
                  /\ UNCHANGED <<history, clock, invoked,
                   completion, plan, lookup>>
             ELSE \E entries \in {HistoryEntries(Registry[c], r.ret.map)} :
                  /\ clock + Len(entries) <= MaxClock + 1
                  /\ history' = RecordHistory(history, c, entries, clock)
                  /\ clock' = clock + Len(entries)
                  /\ invoked' = <<Kwargs(Registry[c], r.ret.map)>>
                  /\ raised' = ""
    /\ phase' = "returned"
    /\ op' = "handler"
    /\ call' = [command |-> c, argv |-> argv, line |-> <<>>,
                interactive |-> interactive_prompts,
                has_prompt_fn |-> interactive_prompts, answers |-> answers]
    /\ UNCHANGED <<interactive_prompts, unawaited, session, events,
                   completion, plan, lookup>>

\* dispatch(registry, cmd, on_error=...): the texts it hands to the error
\* sink, the command it resolved (<<>> if none), the arguments it passed to
\* entry.handler, and whether that call was made.  entry.handler(args)
\* builds the coroutine of the async handler; dispatch neither awaits nor
\* returns it, so the handler body (parse included) does not run
DispatchEntry(split, literal) ==
    IF ~split.ok
    THEN [errors |-> <<ErrorText("Parse error: %", split.exc)>>,
          command |-> <<>>, argv |-> <<>>, coroutine |-> FALSE]
    ELSE IF split.parts = <<>>
    THEN [errors |-> <<>>, command |-> <<>>, argv |-> <<>>, coroutine |-> FALSE]
    ELSE IF literal = <<>> /\ StartsWith(split.parts[1], <<"/">>)
    THEN [errors |-> <<ErrorText("Unknown: %", split.parts[1])>>,
          command |-> <<>>, argv |-> Tail(split.parts), coroutine |-> FALSE]
    ELSE IF literal = <<>> /\ resolve(<<"/">> \o split.parts[1]) = <<>>
    THEN [errors |-> <<ErrorText("Unknown: %", split.parts[1])>>,
          command |-> <<>>, argv |-> Tail(split.parts), coroutine |-> FALSE]
    ELSE [errors |-> <<>>,
          command |-> IF literal = <<>> THEN resolve(<<"/">> \o split.parts[1])
                      ELSE literal,
          argv |-> Tail(split.parts), coroutine |-> TRUE]

DispatchSplit(split) ==
    DispatchEntry(split, IF split.ok /\ split.parts # <<>>
                         THEN resolve(split.parts[1]) ELSE <<>>)

DispatchResult(line) == DispatchSplit(ShlexSplit(Strip(line)))

\* dispatch(registry, cmd, on_error=app.err)
DispatchLine(line) ==
    /\ phase = "idle"
    /\ \E d \in {DispatchResult(line)} :
          /\ errors' = d.errors
          /\ call' = [NoCall EXCEPT
                        !.line = line, !.command = d.command, !.argv = d.argv,
                        !.interactive = d.coroutine /\ interactive_prompts,
                        !.has_prompt_fn = d.coroutine /\ interactive_prompts]
          /\ unawaited' = IF d.coroutine THEN 1 ELSE 0
    /\ phase' = "returned"
    /\ op' = "dispatch"
    /\ UNCHANGED <<interactive_prompts, history, clock, ret, asked, invoked,
                   raised, session, events,
                   completion, plan, lookup>>

\* App.run: the loop goes on to the next line; what the last operation
\* reported is no longer looked at
NextLine ==
    /\ phase = "returned"
    /\ phase' = "idle"
    /\ op' = "none"
    /\ call' = NoCall
    /\ ret' = NoMapping
    /\ errors' = <<>>
    /\ asked' = <<>>
    /\ invoked' = <<>>
    /\ raised' = ""
    /\ unawaited' = 0
    /\ UNCHANGED <<interactive_prompts, history, clock, session, events,
                   completion, plan, lookup>>

AnswerSeqs(n) == SeqsOfLen(Answers, n)

\* a direct call of CommandSpec.parse, with any inputs, outside a session
ParseCall ==
    /\ phase = "idle"
    /\ session = NoSession
    /\ \E c \in Commands, argv \in Argvs, interactive \in BOOLEAN,
          has_prompt_fn \in BOOLEAN :
          \E answers \in AnswerSeqs(PromptCount(Registry[c], argv, interactive,
                                                has_prompt_fn)) :
             ParseWith(c, argv, interactive, has_prompt_fn, answers)

\* a registered handler awaited with any argv
AwaitHandler ==
    /\ phase = "idle"
    /\ session = NoSession
    /\ \E c \in Commands, argv \in Argvs :
          \E answers \in AnswerSeqs(PromptCount(Registry[c], argv,
                                     interactive_prompts, interactive_prompts)) :
             HandlerWith(c, argv, answers)

\* dispatch of any line
Dispatch ==
    /\ phase = "idle"
    /\ session = NoSession
    /\ \E line \in Lines : DispatchLine(line)

(***************************************************************************)
(* The interactive loop (App.run) and the script runner (App.run_script).  *)
(* events records, in order, the hooks fired, the commands recorded in the *)
(* transcript, the dispatch calls, the coroutines they left un-awaited and *)
(* the texts given to App.err.                                             *)
(***************************************************************************)
\* most lines one session reads, and most commands one script holds
MaxLines == 2

\* str.lower() on the characters of the lines
Lower(c) ==
    CASE c = "Q" -> "q" [] c = "U" -> "u" [] c = "I" -> "i" [] c = "T" -> "t"
      [] c = "E" -> "e" [] c = "X" -> "x" [] OTHER -> c

LowerText(s) == [j \in 1..Len(s) |-> Lower(s[j])]

\* s.lower() in {"q", "quit", "exit"}
IsQuit(s) ==
    LowerText(s) \in {<<"q">>, <<"q", "u", "i", "t">>, <<"e", "x", "i", "t">>}

Event(k, text, handled) ==
    [k |-> k, text |-> text, handled |-> handled, msg |-> ""]

\* App.err(text): the text goes to the screen queue and to the transcript
ErrEvent(e) == [k |-> "err", text |-> e.arg, handled |-> FALSE, msg |-> e.msg]

ErrEvents(errs) == [j \in 1..Len(errs) |-> ErrEvent(errs[j])]

\* _fire_hooks for one kind of hook: the registered hook records its call
Fire(hooks, kind, text, handled) ==
    IF kind \in hooks THEN <<Event(kind, text, handled)>> ELSE <<>>

\* str(exc) of the TypeError an await of a non-awaitable raises
AwaitNoneText == <<"object NoneType can't be used in 'await' expression">>

\* what dispatch did for the line text, as events
DispatchEvents(text, d) ==
    <<Event("dispatch", text, TRUE)>> \o ErrEvents(d.errors)
        \o (IF d.coroutine THEN <<Event("coroutine", d.command, TRUE)>> ELSE <<>>)

\* lines 305-316: `await dispatch(...)`; dispatch is a plain function that
\* returns None, so once it has run the await raises TypeError
HandleCommand(text, hooks, fail_on_error, catch_exceptions, d) ==
    IF Awaitable(None)
    THEN [events |-> DispatchEvents(text, d) \o Fire(hooks, "after", text, TRUE),
          outcome |-> "continue"]
    ELSE IF ~catch_exceptions
    THEN [events |-> DispatchEvents(text, d), outcome |-> "raise"]
    ELSE IF fail_on_error
    THEN [events |-> DispatchEvents(text, d)
                     \o <<ErrEvent(ErrorText("Command failed: %", AwaitNoneText))>>,
          outcome |-> "stop"]
    ELSE [events |-> DispatchEvents(text, d)
                     \o <<ErrEvent(ErrorText("Command failed: %", AwaitNoneText))>>
                     \o Fire(hooks, "after", text, TRUE),
          outcome |-> "continue"]

\* lines 317-325: text that does not start with "/"
HandleText(text, hooks, fail_on_error, from_script) ==
    [events |->
        (IF "after" \in hooks THEN <<>>
         ELSE <<ErrEvent(ErrorText(IF from_script
                                   THEN "Commands must start with '/'"
                                   ELSE "Type '/' to run a command", <<>>))>>)
        \o (IF fail_on_error THEN <<>> ELSE Fire(hooks, "after", text, FALSE)),
     outcome |-> IF fail_on_error THEN "stop" ELSE "continue"]

\* App._handle_command_text(text, fail_on_error, from_script,
\* catch_exceptions): what it does and how it ends: "continue" (returns
\* True), "stop" (returns False) or "raise"
HandleCommandText(text, hooks, fail_on_error, from_script, catch_exceptions) ==
    IF StartsWith(text, <<"/">>)
    THEN HandleCommand(text, hooks, fail_on_error, catch_exceptions,
                       DispatchResult(text))
    ELSE HandleText(text, hooks, fail_on_error, from_script)

\* the hooks registered before the call: none, or one recording hook of
\* each kind
HookSets == { {}, {"start", "before", "after"} }

\* the lines of the scripts and of the typed input
ScriptLines ==
    { cmdNoop, cmdSay \o <<" ", "a">>, <<"/", "z">>, <<"a">>, <<"q">>,
      cmdSay \o <<" ", "\"", "a">> }

Scripts == SeqsUpTo(ScriptLines, MaxLines)

\* what session.prompt gives: a typed line, or end of input (EOFError,
\* KeyboardInterrupt)
EndOfInput == [eof |-> TRUE, text |-> <<>>]
Typed(s) == [eof |-> FALSE, text |-> s]

Inputs ==
    {EndOfInput} \cup {Typed(s) : s \in ScriptLines \cup
                          { <<>>, <<"Q">>, <<" ", "e", "x", "i", "t">> }}

\* lines 452-457 of one iteration of the loop of App.run
RunHandled(hct) ==
    [events |-> hct.events,
     status |-> IF hct.outcome = "raise" THEN "crashed" ELSE "running"]

\* lines 431-457: one iteration of the loop of App.run after the
\* before_prompt hooks, on the input inp
RunIteration(inp, hooks) ==
    IF inp.eof
    THEN [events |-> <<Event("info", <<"Goodbye!">>, FALSE)>>
                     \o Fire(hooks, "after", <<>>, FALSE),
          status |-> "ended"]
    ELSE IF IsQuit(Strip(inp.text))
    THEN [events |-> Fire(hooks, "after", Strip(inp.text), FALSE),
          status |-> "ended"]
    ELSE IF Strip(inp.text) = <<>>
    THEN [events |-> Fire(hooks, "after", <<>>, FALSE), status |-> "running"]
    ELSE RunHandled(HandleCommandText(Strip(inp.text), hooks, FALSE, FALSE,
                                      FALSE))

\* lines 395-402 of one iteration of the loop of App.run_script
ScriptHandled(cmd, hct) ==
    [events |-> <<Event("record", cmd, FALSE)>> \o hct.events,
     go |-> hct.outcome = "continue"]

\* lines 386-402: one iteration of the loop of App.run_script after the
\* before_prompt hooks, on the command cmd
ScriptIteration(cmd, hooks, fail_on_error) ==
    IF IsQuit(cmd)
    THEN [events |-> Fire(hooks, "after", cmd, FALSE), go |-> FALSE]
    ELSE ScriptHandled(cmd, HandleCommandText(cmd, hooks, fail_on_error, TRUE,
                                              TRUE))

\* App.run() up to its loop: the on_start hooks fire
RunStart ==
    /\ phase = "idle"
    /\ session = NoSession
    /\ \E hooks \in HookSets :
          /\ session' = [NoSession EXCEPT !.kind = "run", !.status = "running",
                                          !.hooks = hooks]
          /\ events' = Fire(hooks, "start", <<>>, FALSE)
    /\ UNCHANGED <<interactive_prompts, history, clock, phase, op, call, ret,
                   errors, asked, invoked, raised, unawaited,
                   completion, plan, lookup>>

\* one iteration of the loop of App.run: the before_prompt hooks, the read
\* of a line, and what the line leads to
RunLine ==
    /\ session.kind = "run"
    /\ session.status = "running"
    /\ session.lines < MaxLines
    /\ \E inp \in Inputs :
          \E it \in {RunIteration(inp, session.hooks)} :
             /\ events' = events \o Fire(session.hooks, "before", <<>>, FALSE)
                                 \o it.events
             /\ session' = [session EXCEPT !.status = it.status,
                                           !.lines = @ + 1,
                                           !.script = Append(@, inp)]
    /\ UNCHANGED <<interactive_prompts, history, clock, phase, op, call, ret,
                   errors, asked, invoked, raised, unawaited,
                   completion, plan, lookup>>

\* App.run_script(commands, prompt_responses, fail_on_error) up to its
\* loop, for a list of commands; with no command the finally block follows
ScriptStart ==
    /\ phase = "idle"
    /\ session = NoSession
    /\ \E commands \in Scripts, fail_on_error \in BOOLEAN, hooks \in HookSets,
          prompt_responses \in BOOLEAN :
          /\ session' = [kind |-> "script",
                         status |-> IF commands = <<>> THEN "ended"
                                    ELSE "running",
                         hooks |-> hooks, script |-> commands,
                         pending |-> commands, lines |-> 0,
                         fail_on_error |-> fail_on_error,
                         original_interactive |-> interactive_prompts]
          /\ interactive_prompts' =
                 IF commands = <<>> THEN interactive_prompts
                 ELSE interactive_prompts \/ prompt_responses
          /\ events' = Fire(hooks, "start", <<>>, FALSE)
    /\ UNCHANGED <<history, clock, phase, op, call, ret, errors, asked,
                   invoked, raised, unawaited,
                   completion, plan, lookup>>

\* one iteration of the loop of App.run_script; the finally block follows
\* the last one
ScriptStep ==
    /\ session.kind = "script"
    /\ session.status = "running"
    /\ session.pending # <<>>
    /\ \E it \in {ScriptIteration(Head(session.pending), session.hooks,
                                   session.fail_on_error)} :
          /\ events' = events \o Fire(session.hooks, "before", <<>>, FALSE)
                              \o it.events
          /\ session' = [session EXCEPT
                            !.pending = Tail(@),
                            !.lines = @ + 1,
                            !.status = IF it.go /\ Tail(session.pending) # <<>>
                                       THEN "running" ELSE "ended"]
          /\ interactive_prompts' =
                 IF it.go /\ Tail(session.pending) # <<>>
                 THEN interactive_prompts
                 ELSE session.original_interactive
    /\ UNCHANGED <<history, clock, phase, op, call, ret, errors, asked,
                   invoked, raised, unawaited,
                   completion, plan, lookup>>

(***************************************************************************)
(* Argument completion: SlashCompleter.get_completions, the suggestion     *)
(* sources of tui/completers.py and HistoryStore.get.                      *)
(***************************************************************************)
\* a suggestion source: its kind and what it was built from
Source(kind, items, parent, table) ==
    [kind |-> kind, items |-> items, parent |-> parent, table |-> table]

NoCompleter == Source("none", <<>>, <<>>, EmptyMap)

\* completers.choices(*items)
Choices(items) == Source("choices", items, <<>>, EmptyMap)

\* a function of the application, lambda ctx: [...], that returns its whole
\* list whatever the prefix (fetch_names, fetch_projects of the tests)
Fetch(items) == Source("fetch", items, <<>>, EmptyMap)

\* completers.dependent(parent_arg, fetch) with fetch = table.get(value, [])
Dependent(parent, table) == Source("dependent", <<>>, parent, table)

\* completers.paths()
Paths == Source("paths", <<>>, <<>>, EmptyMap)

\* completers.history(): limit is 10
History == Source("history", <<>>, <<>>, EmptyMap)

\* the fetch table of the dependent declaration
TagTable ==
    (<<"a">> :> << <<"a", "b">>, <<"3">> >>) @@ (<<"3">> :> << <<"3", "0">> >>)

\* the completer= argument of the declarations that are given one
DeclaredCompleters ==
    (<<cmdSet, x>> :> Fetch(<< <<"a">>, <<"3">> >>))
    @@ (<<cmdSet, y>> :> Dependent(x, TagTable))
    @@ (<<cmdTag, h>> :> Fetch(<< <<"a">>, <<"3">> >>))
    @@ (<<cmdTask, h>> :> Choices(<< <<"3">>, <<"3", "0">> >>))
    @@ (<<cmdNum, h>> :> Choices(<< <<"a">>, <<"a", "b">> >>))

\* Arg.get_completer of the declaration behind plan p of command c
GetCompleter(c, p) ==
    IF <<c, p.name>> \in DOMAIN DeclaredCompleters
    THEN DeclaredCompleters[<<c, p.name>>]
    ELSE IF p.definition.type = "path" THEN Paths
    ELSE IF p.definition.history THEN History
    ELSE NoCompleter

\* sorted names of the entries of the current directory, all plain files
Directory == << <<"a">>, <<"a", "b">> >>

\* [item for item in items if item.startswith(prefix)]
WithPrefix(items, prefix) ==
    LET Starts(s) == StartsWith(s, prefix)
    IN SelectSeq(items, Starts)

\* the values of keys, latest time first
RECURSIVE ByTimeDesc(_, _)
ByTimeDesc(data, keys) ==
    IF keys = {} THEN <<>>
    ELSE LET top == CHOOSE k \in keys : \A j \in keys : data[j] <= data[k]
         IN <<top[3]>> \o ByTimeDesc(data, keys \ {top})

\* items[:limit]
FirstItems(items, limit) ==
    SubSeq(items, 1, IF Len(items) < limit THEN Len(items) ELSE limit)

\* HistoryStore.get(command, arg, limit)
HistoryGet(data, command, arg, limit) ==
    FirstItems(ByTimeDesc(data, {k \in DOMAIN data :
                                    k[1] = command /\ k[2] = arg}), limit)

\* the parent value read from the snapshot of values the call kept
ParentValueKept(arg_values, parent) ==
    IF parent \notin DOMAIN completion.arg_values THEN <<>>
    ELSE IF completion.arg_values[parent].t = "list"
    THEN IF completion.arg_values[parent].items = <<>> THEN <<>>
         ELSE completion.arg_values[parent].items[
                  Len(completion.arg_values[parent].items)]
    ELSE completion.arg_values[parent].items[1]

\* dependent, lines 82-87: arg_values.get(parent_arg, ""), the last element
\* of a list, "" for an empty list
ParentValue(arg_values, parent) ==
    IF parent \notin DOMAIN arg_values THEN <<>>
    ELSE IF arg_values[parent].t = "list"
    THEN IF arg_values[parent].items = <<>> THEN <<>>
         ELSE arg_values[parent].items[Len(arg_values[parent].items)]
    ELSE arg_values[parent].items[1]

\* fetch(parent_value, ctx)
Fetched(table, parent_value) ==
    IF parent_value \in DOMAIN table THEN table[parent_value] ELSE <<>>

\* the path completer for a prefix naming no directory: the entries of the
\* current directory whose name starts with it
PathNames(prefix) ==
    IF \E k \in 1..Len(prefix) : prefix[k] = "/" THEN <<>>
    ELSE WithPrefix(Directory, prefix)

\* completer_fn(context)
Suggestions(cp, ctx) ==
    CASE cp.kind = "fetch" -> cp.items
      [] cp.kind = "choices" -> WithPrefix(cp.items, ctx.prefix)
      [] cp.kind = "dependent" ->
           WithPrefix(Fetched(cp.table, ParentValue(ctx.arg_values, cp.parent)),
                      ctx.prefix)
      [] cp.kind = "paths" -> PathNames(ctx.prefix)
      [] cp.kind = "history" ->
           WithPrefix(HistoryGet(ctx.history, ctx.command, ctx.arg_name, 10),
                      ctx.prefix)
      [] OTHER -> <<>>

\* the entries of a completion plan as an earlier call left them
CompletionPlanKept(params) ==
    IF Len(completion.entries) = Len(params)
    THEN completion.entries
    ELSE [k \in 1..Len(params) |->
             [name |-> params[k].name, flag |-> params[k].flag,
              repeat |-> params[k].repeat, provided |-> FALSE]]

\* CommandSpec.completion_plan: new entries, none of them provided
CompletionPlan(params) ==
    [k \in 1..Len(params) |->
        [name |-> params[k].name, flag |-> params[k].flag,
         repeat |-> params[k].repeat, provided |-> FALSE]]

\* the completion plan each registered command hands out
CompletionPlans == [c \in Commands |-> CompletionPlan(Registry[c])]

\* lines 408-413 and 420-425: the raw value goes to parsed_values and the
\* entry becomes the last one provided
CompletionBind(params, cs, k, raw, step, cursor) ==
    [cs EXCEPT !.arg_values = IF params[k].repeat
                              THEN PutAppend(@, params[k].name, raw)
                              ELSE Put(@, params[k].name, One(raw)),
               !.entries[k].provided = TRUE,
               !.last = k,
               !.i = @ + step,
               !.pos_cursor = cursor]

\* lines 394-413: a token that starts with "--"
CompletionFlag(params, toks, cs, part, k) ==
    IF k = 0 THEN [cs EXCEPT !.i = @ + 1]
    ELSE IF part.eq
    THEN CompletionBind(params, cs, k, part.val, 1, cs.pos_cursor)
    ELSE IF cs.i >= Len(toks) THEN [cs EXCEPT !.done = TRUE]
    ELSE CompletionBind(params, cs, k, toks[cs.i + 1], 2, cs.pos_cursor)

\* lines 414-427: any other token goes to the entry at cur
CompletionPositional(params, toks, cs, cur) ==
    IF cur > Len(params) THEN [cs EXCEPT !.done = TRUE, !.pos_cursor = cur]
    ELSE CompletionBind(params, cs, cur, toks[cs.i], 1,
                        IF params[cur].repeat THEN cur ELSE cur + 1)

CompletionToken(params, toks, cs) ==
    IF StartsWith(toks[cs.i], <<"-", "-">>)
    THEN CompletionFlag(params, toks, cs, Partition(toks[cs.i]),
                        PlanByFlag(params, Partition(toks[cs.i]).key))
    ELSE CompletionPositional(params, toks, cs,
                              next_pos_index(cs.entries, cs.pos_cursor))

\* the loop of lines 391-428 over tokens_for_parse
RECURSIVE CompletionScan(_, _, _)
CompletionScan(params, toks, cs) ==
    IF cs.done \/ cs.i > Len(toks) THEN cs
    ELSE CompletionScan(params, toks, CompletionToken(params, toks, cs))

\* lines 386-390: the scan state before the loop
CompletionStart(entries) ==
    [entries |-> entries, arg_values |-> EmptyMap,
     pos_cursor |-> next_pos_index(entries, 1), i |-> 1, last |-> 0,
     done |-> FALSE]

\* the first entry not provided, 0 when every entry is
NextUnprovided(entries) ==
    IF next_pos_index(entries, 1) <= Len(entries)
    THEN next_pos_index(entries, 1) ELSE 0

\* lines 430-446: the plan entry the suggestions are for, 0 when none
ActivePlan(params, cs, has_trailing_space, active_token) ==
    IF has_trailing_space THEN NextUnprovided(cs.entries)
    ELSE IF StartsWith(active_token, <<"-", "-">>)
    THEN PlanByFlag(params, Partition(active_token).key)
    ELSE IF cs.last # 0 THEN cs.last
    ELSE NextUnprovided(cs.entries)

\* lines 379-384: the completion prefix of the active token
CompletionPrefix(has_trailing_space, active_token) ==
    IF has_trailing_space THEN <<>>
    ELSE IF StartsWith(active_token, <<"-", "-">>) /\ Partition(active_token).eq
    THEN Partition(active_token).val
    ELSE active_token

\* lines 469-482: the suggestions turned into Completion objects
Yielded(suggestions, prefix, active_token) ==
    LET Kept(s) == ~(/\ prefix # <<>>
                     /\ ~(/\ StartsWith(active_token, <<"-", "-">>)
                          /\ ~Partition(active_token).eq)
                     /\ ~StartsWith(s, prefix))
    IN SelectSeq(suggestions, Kept)

\* what a call of get_completions gave: the texts of the Completion objects
\* in order, -start_position, and the locals the call ended with
Completions(kind, items, command, arg, prefix, token, cs) ==
    [kind |-> kind, items |-> items, command |-> command, arg |-> arg,
     prefix |-> prefix, token |-> token, start |-> Len(prefix),
     entries |-> cs.entries, arg_values |-> cs.arg_values]

NoScan == [entries |-> <<>>, arg_values |-> EmptyMap]

Nothing == Completions("none", <<>>, <<>>, <<>>, <<>>, <<>>, NoScan)

\* lines 448-482 for the active entry k and its suggestion source cp
CompleteValue(c, params, cs, k, cp, prefix, active_token, data) ==
    IF cp.kind = "none"
    THEN Completions("none", <<>>, c, params[k].name, prefix, active_token, cs)
    ELSE Completions("value",
             Yielded(Suggestions(cp, [prefix |-> prefix, command |-> c,
                                      arg_name |-> params[k].name,
                                      history |-> data,
                                      arg_values |-> cs.arg_values]),
                     prefix, active_token),
             c, params[k].name, prefix, active_token, cs)

CompleteActive(c, params, cs, k, prefix, active_token, data) ==
    IF k = 0
    THEN Completions("none", <<>>, c, <<>>, prefix, active_token, cs)
    ELSE CompleteValue(c, params, cs, k, GetCompleter(c, params[k]), prefix,
                       active_token, data)

CompleteScanned(c, params, cs, has_trailing_space, active_token, data) ==
    CompleteActive(c, params, cs,
                   ActivePlan(params, cs, has_trailing_space, active_token),
                   CompletionPrefix(has_trailing_space, active_token),
                   active_token, data)

\* lines 364-428: args_tokens, the active token, tokens_for_parse, the scan
CompleteArgs(c, params, entries, args, has_trailing_space, data) ==
    CompleteScanned(c, params,
                    CompletionScan(params, args, CompletionStart(entries)),
                    has_trailing_space,
                    IF has_trailing_space \/ args = <<>> THEN <<>>
                    ELSE args[Len(args)],
                    data)

\* the registered names in the order of their registration
CommandOrder ==
    <<cmdTask, cmdAsk, cmdTag, cmdNote, cmdSay, cmdSet, cmdNum, cmdOpen,
      cmdNoop>>

\* lines 344-354: the names that start with the only word typed
CompleteName(word) ==
    Completions("command", WithPrefix(CommandOrder, word), <<>>, <<>>, word,
                word, NoScan)

\* lines 340-362 for the words of the stripped text
CompleteWords(tokens, has_trailing_space, data, plans) ==
    IF tokens = <<>> THEN Nothing
    ELSE IF Len(tokens) = 1 /\ ~has_trailing_space THEN CompleteName(tokens[1])
    ELSE IF resolve(tokens[1]) = <<>> THEN Nothing
    ELSE IF Registry[tokens[1]] = <<>> THEN Nothing
    ELSE CompleteArgs(tokens[1], Registry[tokens[1]], plans[tokens[1]],
                      Tail(tokens), has_trailing_space, data)

\* lines 334-340 for the text with its leading blanks removed
CompleteStripped(s, data, plans) ==
    IF ~StartsWith(s, <<"/">>) THEN Nothing
    ELSE CompleteWords(StripNonEmpty(Split(s, " ")), s[Len(s)] = " ", data,
                       plans)

\* get_completions(document, complete_event) for the text before the
\* cursor, the History Store data, and the plans completion_plan hands out
CompletionsFrom(text, data, plans) == CompleteStripped(LStrip(text), data, plans)

GetCompletions(text, data) == CompletionsFrom(text, data, CompletionPlans)

\* a typed text: a first word, the argument words after it, and whether a
\* blank follows the last word
Text(w, argv, blank) ==
    Join(<<w>> \o argv, <<" ">>) \o (IF blank THEN <<" ">> ELSE <<>>)

wA == <<"a">>
w3 == <<"3">>
wH == <<"-", "-", "h">>
wHeq == <<"-", "-", "h", "=">>
wHeqA == <<"-", "-", "h", "=", "a">>
wT == <<"-", "-", "t">>

\* the texts get_completions is called with
TypedTexts ==
    { <<>>,
      <<"/">>,
      <<"/", "t">>,
      <<" ", "/", "t", "a">>,
      Text(<<"t", "a", "s", "k">>, <<wA>>, FALSE),
      Text(<<"/", "z">>, <<wA>>, TRUE),
      Text(cmdNoop, <<>>, TRUE),
      Text(cmdNote, <<wA>>, TRUE),
      Text(cmdSet, <<>>, TRUE),
      Text(cmdSet, <<wA>>, FALSE),
      Text(cmdSet, <<w3>>, FALSE),
      Text(cmdSet, <<wA>>, TRUE),
      Text(cmdSet, <<w3>>, TRUE),
      Text(cmdSet, <<wA, w3>>, FALSE),
      Text(cmdSet, <<wT, w3>>, TRUE),
      Text(cmdSet, <<wA, wH>>, FALSE),
      Text(cmdSet, <<wA, w3>>, TRUE),
      Text(cmdSet, <<wA, w3, wA>>, FALSE),
      <<" ">> \o Text(cmdSet, <<wA>>, TRUE),
      Text(cmdTag, <<>>, TRUE),
      Text(cmdTag, <<wH>>, FALSE),
      Text(cmdTag, <<wH>>, TRUE),
      Text(cmdTag, <<wHeq>>, FALSE),
      Text(cmdTag, <<wHeqA>>, FALSE),
      Text(cmdTag, <<wH, wA>>, FALSE),
      Text(cmdTag, <<wA, wA>>, FALSE),
      Text(cmdTag, <<wA, wA>>, TRUE),
      Text(cmdTask, <<>>, TRUE),
      Text(cmdTask, <<wA>>, FALSE),
      Text(cmdTask, <<w3>>, FALSE),
      Text(cmdTask, <<wA>>, TRUE),
      Text(cmdTask, <<wA, w3>>, FALSE),
      Text(cmdTask, <<wA, wH>>, FALSE),
      Text(cmdTask, <<wH, w3>>, TRUE),
      Text(cmdAsk, <<>>, TRUE),
      Text(cmdAsk, <<wA>>, TRUE),
      Text(cmdAsk, <<wHeq>>, FALSE),
      Text(cmdAsk, <<wH>>, FALSE),
      Text(cmdNum, <<w3, w3>>, TRUE),
      Text(cmdNum, <<wHeqA>>, FALSE),
      Text(cmdOpen, <<>>, TRUE),
      Text(cmdOpen, <<wA>>, FALSE) }

\* the (command, arg, value) triples added to the History Store
HistoryKeys ==
    { <<cmdTask, x, <<"a", "b">> >>, <<cmdAsk, x, <<"a">> >>,
      <<cmdAsk, h, <<"3">> >> }

\* the record of a call: the text, the clock it was made at, what it gave
CallOf(text, now, r) == [text |-> text, at |-> now] @@ r

\* SlashCompleter(self.registry, history_store=self.history,
\* state_provider=lambda: self.state)
NewCompleter ==
    /\ phase = "idle"
    /\ session = NoSession
    /\ session' = [NoSession EXCEPT !.kind = "completer",
                                    !.status = "running"]
    /\ UNCHANGED <<interactive_prompts, history, clock, phase, op, call, ret,
                   errors, asked, invoked, raised, unawaited, events,
                   completion, plan, lookup>>

\* history.add(command, arg, value) on the store the completer was given,
\* for a value the store does not hold yet; the store is a public attribute
\* of the App
HistoryAddCall ==
    /\ session.kind = "completer"
    /\ clock <= MaxClock
    /\ \E k \in HistoryKeys \ DOMAIN history :
          history' = HistoryAdd(history, k[1], k[2], k[3], clock)
    /\ clock' = clock + 1
    /\ UNCHANGED <<interactive_prompts, phase, op, call, ret, errors, asked,
                   invoked, raised, unawaited, session, events, completion, plan, lookup>>

\* list(completer.get_completions(document, None)) for any typed text
Complete ==
    /\ session.kind = "completer"
    /\ \E text \in TypedTexts :
          \E r \in {GetCompletions(text, history)} :
             completion' = CallOf(text, clock, r)
    /\ UNCHANGED <<interactive_prompts, history, clock, phase, op, call, ret,
                   errors, asked, invoked, raised, unawaited, session,
                   events, plan, lookup>>

(***************************************************************************)
(* CommandSpec.from_args called directly, on any list of declarations.     *)
(***************************************************************************)
\* longest args list handed to from_args
MaxDecls == 3

z == <<"z">>
u == <<"u">>

\* the declarations the args lists are made of: a plain Arg, an Opt without
\* a default, an Arg with a default (a falsy one), a repeat Opt whose
\* default is a list, a multiline Arg that prompts, and a repeat Arg
ArgPool ==
    { ArgDecl(x, "str", None, FALSE, FALSE, FALSE, FALSE, FALSE),
      ArgDecl(y, "str", None, FALSE, FALSE, FALSE, FALSE, TRUE),
      ArgDecl(h, "int", One(IntVal(0)), FALSE, FALSE, FALSE, FALSE, FALSE),
      ArgDecl(t, "str", List(<<StrVal(<<"a">>)>>), FALSE, FALSE, TRUE, FALSE, TRUE),
      ArgDecl(z, "str", None, FALSE, TRUE, FALSE, TRUE, FALSE),
      ArgDecl(u, "int", None, FALSE, FALSE, TRUE, FALSE, FALSE) }

\* the args lists: the same declaration may be passed more than once
ArgLists == SeqsUpTo(ArgPool, MaxDecls)

\* CommandSpec.from_args(name, args, converter_for, optional_types=(Opt,))
FromArgsCall ==
    /\ phase = "idle"
    /\ session = NoSession
    /\ ~plan.built
    /\ \E args \in ArgLists :
          plan' = [NoPlan EXCEPT !.args = args, !.params = FromArgs(args),
                                 !.built = TRUE]
    /\ UNCHANGED <<interactive_prompts, history, clock, phase, op, call, ret,
                   errors, asked, invoked, raised, unawaited, session, events,
                   completion, lookup>>

(***************************************************************************)
(* One CommandSpec used by several parse calls.  The default of a          *)
(* declaration is one object, reached from the Arg, from its ParamPlan and *)
(* from the runtime entry of every call; a list bound in values is either  *)
(* that object or a list of the call's own.                                *)
(***************************************************************************)
\* most parse calls made on one plan
MaxCalls == 2

\* CopiesDefault for a parse that binds default_val itself
CopiesDefaultNever(p) == FALSE

\* lines 148-158: a repeat entry starts from list(default_val), [default_val]
\* or [], a list of this call; lines 160-161 bind entry["default"] itself
CopiesDefault(p) == p.repeat

\* values[name] starts as the default object of the plan
SharesDefault(p) == ~p.required /\ p.default # None /\ ~CopiesDefault(p)

\* lines 190 and 213: append on the list bound in values changes the default
\* object when that list is the default object
WritesThrough(p) == p.repeat /\ SharesDefault(p)

\* the params of the plan once a parse has scanned its tokens
PlanAfter(params, scanned) ==
    [k \in 1..Len(params) |->
        IF WritesThrough(params[k])
        THEN [params[k] EXCEPT
                !.default = scanned.values[params[k].name],
                !.definition.default = scanned.values[params[k].name]]
        ELSE params[k]]

\* the names whose value in the returned mapping is the default object
SharedNames(params, after, returned) ==
    IF returned.isNone THEN {}
    ELSE {after[k].name : k \in {j \in 1..Len(params) :
              /\ SharesDefault(params[j])
              /\ returned.map[params[j].name] = after[j].default}}

\* a mapping returned earlier, as it reads now
SeenNow(earlier, shares, params) ==
    IF earlier.isNone THEN earlier
    ELSE Mapping([name \in DOMAIN earlier.map |->
            IF name \in shares
            THEN params[CHOOSE k \in 1..Len(params) :
                            params[k].name = name].default
            ELSE earlier.map[name]])

\* the token lists the calls on one plan are made with
ReuseArgvs ==
    { <<>>, << <<"a">> >>, << <<"3">> >>, << <<"a">>, <<"3">> >>,
      << <<"3">>, <<"3">> >>,
      << <<"-", "-", "h", "=", "3">> >>,
      << <<"3">>, <<"-", "-", "h", "=", "3">> >>,
      << <<"-", "-", "h">>, <<"a">>, <<"3">> >>,
      << <<"a">>, <<"-", "-", "h">>, <<"a">>, <<"-", "-", "h", "=", "3">> >>,
      << <<"a">>, <<"-", "-", "t">> >>,
      << <<"a">>, <<"3">>, <<"a">> >> }

\* what the prompt function answers in those calls
ReuseAnswers == { Answer(<<>>), Answer(<<"3">>) }

\* App.command: the plan of a command is compiled at registration
Register ==
    /\ phase = "idle"
    /\ session = NoSession
    /\ ~plan.built
    /\ \E c \in Commands :
          plan' = [NoPlan EXCEPT !.args = Declared[c],
                                 !.params = FromArgs(Declared[c]),
                                 !.built = TRUE]
    /\ UNCHANGED <<interactive_prompts, history, clock, phase, op, call, ret,
                   errors, asked, invoked, raised, unawaited, session, events,
                   completion, lookup>>

\* one more parse call on the plan; the first mapping returned is kept
ParseOnPlanWith(argv, interactive, answers, r, after) ==
    plan' = [plan EXCEPT
        !.params = after,
        !.calls = @ + 1,
        !.earlier = IF @.isNone THEN r.ret ELSE @,
        !.shares = IF plan.earlier.isNone
                   THEN SharedNames(plan.params, after, r.ret) ELSE @,
        !.last = [NoCall EXCEPT !.argv = argv, !.interactive = interactive,
                                !.has_prompt_fn = interactive,
                                !.answers = answers],
        !.ret = r.ret,
        !.errors = r.errors]

\* spec.parse(argv, on_error=..., prompt_fn=..., interactive=...) on a plan
\* that earlier calls have used
ParseOnPlan ==
    /\ plan.built
    /\ plan.calls < MaxCalls
    /\ \E argv \in ReuseArgvs, interactive \in BOOLEAN :
          \E answers \in SeqsOfLen(ReuseAnswers,
                            PromptCount(plan.params, argv, interactive,
                                        interactive)) :
             \E r \in {Parse(plan.params, argv, interactive, interactive,
                             answers)},
                after \in {PlanAfter(plan.params, Scan(plan.params, argv))} :
                ParseOnPlanWith(argv, interactive, answers, r, after)
    /\ UNCHANGED <<interactive_prompts, history, clock, phase, op, call, ret,
                   errors, asked, invoked, raised, unawaited, session, events,
                   completion, lookup>>

(***************************************************************************)
(* The History Store used directly: HistoryStore.add and HistoryStore.get. *)
(***************************************************************************)
\* largest limit handed to get
MaxLimit == 2

\* the (command, arg, value) triples added
StoreKeys ==
    { <<cmdTask, x, <<"a">> >>, <<cmdTask, x, <<"a", "b">> >>,
      <<cmdTask, x, <<"3">> >>, <<cmdAsk, x, <<"a">> >> }

\* the (command, arg) pairs looked up
StorePairs == { <<cmdTask, x>>, <<cmdAsk, x>>, <<cmdAsk, h>> }

\* store.add(command, arg, value), for a value stored already or not
StoreAdd ==
    /\ clock <= MaxClock
    /\ \E k \in StoreKeys :
          /\ history' = HistoryAdd(history, k[1], k[2], k[3], clock)
          /\ lookup' = [NoLookup EXCEPT !.adds = Append(lookup.adds, k)]
    /\ clock' = clock + 1
    /\ UNCHANGED <<interactive_prompts, phase, op, call, ret, errors, asked,
                   invoked, raised, unawaited, session, events, completion,
                   plan>>

\* store.get(command, arg, limit)
StoreGet ==
    /\ \E pair \in StorePairs, limit \in 0..MaxLimit :
          lookup' = [lookup EXCEPT
                        !.command = pair[1], !.arg = pair[2],
                        !.limit = limit, !.got = TRUE,
                        !.result = HistoryGet(history, pair[1], pair[2],
                                              limit)]
    /\ UNCHANGED <<interactive_prompts, history, clock, phase, op, call, ret,
                   errors, asked, invoked, raised, unawaited, session, events,
                   completion, plan>>

Next ==
    \/ ParseCall
    \/ AwaitHandler
    \/ Dispatch
    \/ NextLine
    \/ RunStart
    \/ RunLine
    \/ ScriptStart
    \/ ScriptStep

Spec == Init /\ [][Next]_vars

\* the completer at work: the texts typed at the prompt are completed while
\* values reach the History Store
CompleterNext ==
    \/ NewCompleter
    \/ HistoryAddCall
    \/ Complete

CompleterSpec == Init /\ [][CompleterNext]_vars

\* plans compiled from any list of declarations
PlanNext == FromArgsCall

PlanSpec == Init /\ [][PlanNext]_vars

\* the plan of a registered command parsed with again and again
ReuseNext ==
    \/ Register
    \/ ParseOnPlan

ReuseSpec == Init /\ [][ReuseNext]_vars

\* a History Store written and read by its two methods
StoreNext ==
    \/ StoreAdd
    \/ StoreGet

StoreSpec == Init /\ [][StoreNext]_vars

(***************************************************************************)
(* Properties.                                                             *)
(***************************************************************************)
\* the plan of the command the last operation was about
Plan == Registry[call.command]

\* parse has run in the last operation, directly or inside the handler
ParseRan == phase = "returned" /\ op \in {"parse", "handler"}

\* the binding state the token scan of the last operation ended in
Scanned == Scan(Plan, call.argv)

\* interactive resolution was available to the last parse
Resolving == call.interactive /\ call.has_prompt_fn

\* the index of the declaration called name in params
IndexOf(params, name) == CHOOSE k \in 1..Len(params) : params[k].name = name

\* the names of the required declarations that runtime leaves unset, in
\* plan order
RECURSIVE UnsetRequiredNames(_, _, _)
UnsetRequiredNames(params, runtime, k) ==
    IF k > Len(params) THEN <<>>
    ELSE (IF params[k].required /\ ~runtime[k].provided
          THEN <<params[k].name>> ELSE <<>>)
             \o UnsetRequiredNames(params, runtime, k + 1)

\* C3: with interactive resolution disabled, a scan that ends with required
\* declarations unset makes parse report "Missing: " and exactly their names,
\* space-joined in plan order, return no mapping and run no handler body
C3_MissingRequiredReported ==
    (/\ ParseRan
     /\ ~Resolving
     /\ ~Scanned.failed
     /\ UnsetRequiredNames(Plan, Scanned.runtime, 1) # <<>>)
    => /\ errors = <<ErrorText("Missing: %",
                       Join(UnsetRequiredNames(Plan, Scanned.runtime, 1), <<" ">>))>>
       /\ ret = NoMapping
       /\ invoked = <<>>

\* C3 witness: two required names are reported, and a scan that set one of
\* two reports the other alone
C3_Witness ==
    /\ ParseRan
    /\ ~Resolving
    /\ call.command = cmdSet
    /\ call.argv = <<>>
    /\ errors = <<ErrorText("Missing: %", <<"x", " ", "y">>)>>

\* C7: an empty answer for an optional declaration leaves its value in the
\* returned mapping as the scan left it (default or token-bound), and the
\* next declaration to prompt is still prompted
C7_EmptyAnswerKeepsOptional ==
    ParseRan =>
        \A j \in 1..Len(asked) :
            LET p == Plan[IndexOf(Plan, asked[j].name)]
            IN (~p.required /\ AnswerAt(call.answers, j) = Answer(<<>>))
               => /\ ~ret.isNone => ret.map[p.name] = Scanned.values[p.name]
                  /\ j < Len(ToPrompt(Plan, Scanned.runtime)) => Len(asked) > j

\* C7 witness: an optional declaration bound from tokens is answered with
\* the empty string, a later declaration is prompted, and parse succeeds
C7_Witness ==
    /\ ParseRan
    /\ ~ret.isNone
    /\ \E j \in 1..Len(asked) :
          LET p == Plan[IndexOf(Plan, asked[j].name)]
          IN /\ ~p.required
             /\ AnswerAt(call.answers, j) = Answer(<<>>)
             /\ j < Len(asked)
             /\ ret.map[p.name] # p.default

\* C9: when the prompt function answers None, parse reports Canceled alone,
\* returns no mapping, asks nothing further, and the operation invokes no
\* command function and writes no history
C9_CancelAborts ==
    [][(/\ phase = "idle"
        /\ phase' = "returned"
        /\ op' \in {"parse", "handler"})
       => \A j \in 1..Len(asked') :
             AnswerAt(call'.answers, j) = NoAnswer
             => /\ errors' = <<ErrorText("Canceled", <<>>)>>
                /\ ret' = NoMapping
                /\ Len(asked') = j
                /\ invoked' = <<>>
                /\ history' = history]_vars

\* C9 witness: the handler's parse got an answer for its first prompt and
\* None for its second
C9_Witness ==
    /\ phase = "returned"
    /\ op = "handler"
    /\ Len(asked) = 2
    /\ AnswerAt(call.answers, 1) = Answer(<<"a">>)
    /\ AnswerAt(call.answers, 2) = NoAnswer
    /\ errors = <<ErrorText("Canceled", <<>>)>>

\* argv with the two tokens at i and i + 1 replaced by the one token
\* argv[i]=argv[i + 1]
EqualsForm(argv, i) ==
    SubSeq(argv, 1, i - 1) \o <<argv[i] \o <<"=">> \o argv[i + 1]>>
        \o SubSeq(argv, i + 2, Len(argv))

\* tok is --name for an optional declaration of params
IsOptionalFlag(params, tok) ==
    \E k \in 1..Len(params) :
        ~params[k].required /\ tok = <<"-", "-">> \o params[k].name

\* the positions of argv the scan loop examines as its token tok (line 172)
RECURSIVE ExaminedFrom(_, _, _)
ExaminedFrom(params, argv, st) ==
    IF st.failed \/ st.i > Len(argv) THEN {}
    ELSE {st.i} \cup UNION {ExaminedFrom(params, argv, nxt) :
                               nxt \in {ScanStep(params, argv, st)}}

Examined(params, argv) == ExaminedFrom(params, argv, ScanStart(params))

\* the last parse returned, and reported, what a parse of argv2 does
SameAsParseOf(argv2) ==
    LET r == Parse(Plan, argv2, call.interactive, call.has_prompt_fn,
                   call.answers)
    IN ret = r.ret /\ errors = r.errors

\* the mapping {x: a, h: n}
TaskMapping(n) == Mapping((x :> One(StrVal(<<"a">>))) @@ (h :> One(IntVal(n))))

\* the scenario of the plan {required x: str, optional h: int default 1}
TaskScenario ==
    (ParseRan /\ call.command = cmdTask)
    => /\ call.argv = <<<<"a">>, <<"-", "-", "h">>, <<"3">>>>
            => ret = TaskMapping(3)
       /\ call.argv = <<<<"a">>, <<"-", "-", "h", "=", "3">>>>
            => ret = TaskMapping(3)
       /\ call.argv = <<<<"a">>>> => ret = TaskMapping(1)

\* C2 as claimed: wherever the two tokens --name, v stand in argv (name an
\* optional declaration), parse returns the same as with --name=v in their
\* place
C2_AnywhereInArgv ==
    ParseRan =>
        /\ \A i \in 1..(Len(call.argv) - 1) :
              IsOptionalFlag(Plan, call.argv[i])
              => SameAsParseOf(EqualsForm(call.argv, i))
        /\ TaskScenario

\* C2 amended: when the scan examines --name as a token (it is neither taken
\* as the value of the flag before it nor swallowed by a multiline
\* declaration), parse returns the same mapping or the same error as with
\* --name=v in place of the two tokens --name, v; and the scenario holds
C2_FlagFormsAgree ==
    ParseRan =>
        /\ \A i \in 1..(Len(call.argv) - 1) :
              (IsOptionalFlag(Plan, call.argv[i])
               /\ i \in Examined(Plan, call.argv))
              => SameAsParseOf(EqualsForm(call.argv, i))
        /\ TaskScenario

\* C2 witness: the space form bound the optional int of the scenario
C2_Witness ==
    /\ ParseRan
    /\ call.command = cmdTask
    /\ call.argv = <<<<"a">>, <<"-", "-", "h">>, <<"3">>>>
    /\ 2 \in Examined(Plan, call.argv)
    /\ ret = TaskMapping(3)

\* every declaration of params is a required string argument
AllRequiredStrings(params) ==
    \A k \in 1..Len(params) : params[k].required /\ params[k].convert = "str"

\* argv binds every declaration of params positionally, in order: one
\* non-flag token each, and only the last declaration may take the rest of
\* the line
BindsPositionally(params, argv) ==
    /\ Len(argv) = Len(params)
    /\ \A i \in 1..Len(argv) : ~StartsWith(argv[i], <<"-", "-">>)
    /\ \A k \in 1..(Len(params) - 1) : ~(params[k].multiline /\ ~params[k].repeat)

\* the mapping of each declaration to its token
PositionalMapping(params, argv) ==
    Mapping([n \in {params[k].name : k \in 1..Len(params)} |->
                LET k == IndexOf(params, n)
                IN IF params[k].repeat THEN List(<<StrVal(argv[k])>>)
                   ELSE One(StrVal(argv[k]))])

\* some declaration is both prompt-eligible and multiline
HasMultilinePrompt(params) ==
    \E k \in 1..Len(params) : params[k].prompt /\ params[k].multiline

\* C6 as claimed: all-required-string plans bound positionally return those
\* bindings and never prompt, whatever the resolver and the declarations
C6_NeverPrompts ==
    (/\ ParseRan
     /\ AllRequiredStrings(Plan)
     /\ BindsPositionally(Plan, call.argv))
    => ret = PositionalMapping(Plan, call.argv) /\ asked = <<>>

\* C6 amended: the same, except when interactive resolution is enabled with
\* a prompt function and some declaration is both prompt-eligible and
\* multiline (such a declaration is prompted although it is bound)
C6_PositionalNoPrompt ==
    (/\ ParseRan
     /\ AllRequiredStrings(Plan)
     /\ BindsPositionally(Plan, call.argv)
     /\ ~(Resolving /\ HasMultilinePrompt(Plan)))
    => ret = PositionalMapping(Plan, call.argv) /\ asked = <<>>

\* C6 witness: two prompt-eligible required strings bound by two tokens,
\* with a resolver available, and nothing asked
C6_Witness ==
    /\ ParseRan
    /\ Resolving
    /\ call.command = cmdSet
    /\ call.argv = <<<<"a">>, <<"3">>>>
    /\ ret = PositionalMapping(Plan, call.argv)
    /\ asked = <<>>

\* the arguments argv of command c fail to parse whatever the prompt
\* function answers: the scan fails, or a required declaration stays unset
\* with interactive resolution disabled
ArgsFail(c, argv, resolving) ==
    LET scanned == Scan(Registry[c], argv)
    IN \/ scanned.failed
       \/ ~resolving /\ UnsetRequiredNames(Registry[c], scanned.runtime, 1) # <<>>

\* an operation o with inputs cl, whose parse (if it ran) returned r, is one
\* of the failure kinds: the line does not tokenize, names no registered
\* command, or its arguments fail to parse
CommandFails(o, cl, r) ==
    \/ /\ o = "dispatch"
       /\ \/ ~ShlexSplit(Strip(cl.line)).ok
          \/ ShlexSplit(Strip(cl.line)).parts # <<>> /\ cl.command = <<>>
          \/ /\ cl.command # <<>>
             /\ ArgsFail(cl.command, cl.argv, cl.interactive /\ cl.has_prompt_fn)
    \/ o = "handler" /\ r.isNone

\* C1: every failing command reports through the error sink, invokes no
\* command function and leaves the History Store unchanged
C1_FailureReportedNoEffect ==
    [][(phase = "idle" /\ phase' = "returned" /\ CommandFails(op', call', ret'))
       => /\ Len(errors') >= 1
          /\ invoked' = <<>>
          /\ history' = history]_vars

\* every token of argv is a non-flag token
AllPositional(argv) ==
    \A i \in 1..Len(argv) : ~StartsWith(argv[i], <<"-", "-">>)

\* the values the tokens tokens convert to, all convertible
Converted(kind, tokens) ==
    [j \in 1..Len(tokens) |-> Convert(kind, tokens[j]).v]

\* C4: a repeat declaration that is the plan's only required declaration
\* accumulates every positional token in encounter order and stays eligible
\* after its first fill
C4_RepeatAccumulates ==
    (/\ ParseRan
     /\ ~Resolving
     /\ Len(Plan) >= 1
     /\ Plan[1].required /\ Plan[1].repeat /\ Plan[1].convert = "str"
     /\ \A k \in 2..Len(Plan) : ~Plan[k].required
     /\ call.argv # <<>>
     /\ AllPositional(call.argv))
    => /\ ~ret.isNone
       /\ ret.map[Plan[1].name] = List(Converted("str", call.argv))

\* the number of required declarations of params
RequiredCount(params) ==
    Cardinality({k \in 1..Len(params) : params[k].required})

\* C5: non-flag tokens are bound to required declarations only; with more
\* non-flag tokens than (single-valued) required declarations parse reports
\* Too many positional arguments, and an optional declaration never takes a
\* non-flag token
C5_PositionalOnlyRequired ==
    (/\ ParseRan
     /\ AllPositional(call.argv)
     /\ \A k \in 1..Len(Plan) :
           Plan[k].required => ~Plan[k].repeat /\ ~Plan[k].multiline)
    => /\ Len(call.argv) > RequiredCount(Plan)
          => (ret = NoMapping
              /\ errors = <<ErrorText("Too many positional arguments", <<>>)>>)
       /\ \A k \in 1..Len(Plan) :
             ~Plan[k].required => ~Scanned.runtime[k].provided

\* the names a "Missing: ..." text lists
MissingNames(e) == Split(e.arg, " ")

\* C8: an empty answer for a required declaration leaves it unset: parse
\* returns no mapping and reports Missing naming that declaration
C8_EmptyAnswerRequiredFails ==
    ParseRan =>
        \A j \in 1..Len(asked) :
            LET p == Plan[IndexOf(Plan, asked[j].name)]
            IN (p.required /\ AnswerAt(call.answers, j) = Answer(<<>>))
               => /\ ret = NoMapping
                  /\ Len(errors) = 1
                  /\ errors[1].msg = "Missing: %"
                  /\ \E m \in 1..Len(MissingNames(errors[1])) :
                        MissingNames(errors[1])[m] = p.name

\* the records a successful parse of command c gives the History Store
RecordsOf(c, values) ==
    {<<c, Registry[c][k].name, PyStr(values[Registry[c][k].name])>> :
        k \in {j \in 1..Len(Registry[c]) :
                  /\ Registry[c][j].definition.history
                  /\ values[Registry[c][j].name] # None}}

\* C10: the handler adds one record per history=True declaration with a
\* non-null value when parse succeeded, and none when it failed
C10_HistoryAfterSuccess ==
    [][(phase = "idle" /\ phase' = "returned" /\ op' = "handler")
       => IF ret'.isNone
          THEN history' = history
          ELSE DOMAIN history' =
                   (DOMAIN history) \cup RecordsOf(call'.command, ret'.map)]_vars

\* the conversion the scan step at st makes, if it makes one: the converter,
\* the raw text and the label an error would carry
ScanConversion(params, argv, st) ==
    IF StartsWith(argv[st.i], <<"-", "-">>)
    THEN LET part == Partition(argv[st.i])
             k == PlanByFlag(params, part.key)
         IN IF k = 0 \/ (~part.eq /\ st.i + 1 > Len(argv))
            THEN [any |-> FALSE, kind |-> "str", raw |-> <<>>, label |-> <<>>]
            ELSE [any |-> TRUE, kind |-> params[k].convert,
                  raw |-> IF part.eq THEN part.val ELSE argv[st.i + 1],
                  label |-> part.key]
    ELSE LET cur == next_pos_index(st.runtime, st.pos_cursor)
         IN IF cur > Len(params)
            THEN [any |-> FALSE, kind |-> "str", raw |-> <<>>, label |-> <<>>]
            ELSE [any |-> TRUE, kind |-> params[cur].convert,
                  raw |-> IF params[cur].multiline /\ ~params[cur].repeat
                          THEN Join(SubSeq(argv, st.i, Len(argv)), <<" ">>)
                          ELSE argv[st.i],
                  label |-> params[cur].name]

\* the labels of the conversions c that raise
RaisedLabel(c) ==
    IF c.any /\ ~Convert(c.kind, c.raw).ok THEN {c.label} ELSE {}

\* the labels of the conversions that raise during the scan from st on (the
\* scan stops at the first)
RECURSIVE RaisedInScan(_, _, _)
RaisedInScan(params, argv, st) ==
    IF st.failed \/ st.i > Len(argv) THEN {}
    ELSE UNION {RaisedLabel(c) : c \in {ScanConversion(params, argv, st)}}
            \cup UNION {RaisedInScan(params, argv, nxt) :
                          nxt \in {ScanStep(params, argv, st)}}

\* the converter of p raises on the answer s, or on one of its
\* comma-separated items when p is a repeat declaration
RaisesOnAnswer(p, s) ==
    IF p.repeat
    THEN \E m \in 1..Len(RawItems(s)) : ~Convert(p.convert, RawItems(s)[m]).ok
    ELSE ~Convert(p.convert, s).ok

\* C11: a converter that raises on a positional token, a flag value or a
\* prompt answer (any item of a repeat answer) makes parse report Invalid
\* value for that argument once and return no mapping; parse itself raises
\* nothing
C11_ConverterErrorCaught ==
    ParseRan =>
        /\ \A label \in RaisedInScan(Plan, call.argv, ScanStart(Plan)) :
              /\ errors = <<ErrorText("Invalid value for %", label)>>
              /\ ret = NoMapping
        /\ \A j \in 1..Len(asked) :
              LET p == Plan[IndexOf(Plan, asked[j].name)]
                  ans == AnswerAt(call.answers, j)
              IN (/\ ~ans.none
                  /\ ~(ans.s = <<>> /\ ~p.required)
                  /\ RaisesOnAnswer(p, ans.s))
                 => /\ errors = <<ErrorText("Invalid value for %", p.name)>>
                    /\ ret = NoMapping
                    /\ Len(asked) = j
        /\ op = "parse" => raised = ""

\* C11 witness: one item of a comma-separated answer for a repeat int
\* declaration does not convert
C11_Witness ==
    /\ ParseRan
    /\ op = "parse"
    /\ call.command = cmdNum
    /\ Len(asked) = 1
    /\ asked[1].name = x
    /\ AnswerAt(call.answers, 1) = Answer(<<"a", ",", "3">>)
    /\ errors = <<ErrorText("Invalid value for %", x)>>
    /\ ret = NoMapping

\* the keys of plan_by_flag: the flags of the optional declarations
FlagMap(params) ==
    {params[k].flag : k \in {j \in 1..Len(params) : params[j].flag # NoFlag}}

\* the part of tok before its first "="
FlagName(tok) ==
    IF \E j \in 1..Len(tok) : tok[j] = "="
    THEN SubSeq(tok, 1, (CHOOSE j \in 1..Len(tok) :
                           tok[j] = "=" /\ \A m \in 1..(j - 1) : tok[m] # "=") - 1)
    ELSE tok

HasEquals(tok) == \E j \in 1..Len(tok) : tok[j] = "="

\* the flag token at position i of the last parse is reported as the claim
\* says: unknown first, then the missing value of a known flag in last place
FlagReported(i) ==
    /\ FlagName(call.argv[i]) \notin FlagMap(Plan)
       => /\ errors = <<ErrorText("Unknown option: %", FlagName(call.argv[i]))>>
          /\ ret = NoMapping
    /\ (/\ FlagName(call.argv[i]) \in FlagMap(Plan)
        /\ ~HasEquals(call.argv[i])
        /\ i = Len(call.argv))
       => /\ errors = <<ErrorText("Option % requires a value", call.argv[i])>>
          /\ ret = NoMapping

\* C12 as claimed: any token of argv that starts with "--" and whose name is
\* not in the flag map makes parse fail, and a flag token the scan examines
\* is reported as Unknown option before Option requires a value
C12_UnknownFlagAnywhere ==
    ParseRan =>
        /\ \A i \in 1..Len(call.argv) :
              (/\ StartsWith(call.argv[i], <<"-", "-">>)
               /\ FlagName(call.argv[i]) \notin FlagMap(Plan))
              => ret = NoMapping /\ errors # <<>>
        /\ \A i \in Examined(Plan, call.argv) :
              StartsWith(call.argv[i], <<"-", "-">>) => FlagReported(i)

\* C12 amended: a token starting with "--" that the scan examines as a token
\* (not taken as the value of the flag before it, not swallowed by a
\* multiline declaration, not after an earlier failure) fails with Unknown
\* option: <name> when its name is not in the flag map, also in last place;
\* a known flag without "=" in last place fails with Option <name> requires
\* a value
C12_UnknownFlagFirst ==
    ParseRan =>
        \A i \in Examined(Plan, call.argv) :
            StartsWith(call.argv[i], <<"-", "-">>) => FlagReported(i)

\* C12 witness: an unknown flag in last place, with no value after it
C12_Witness ==
    /\ ParseRan
    /\ call.command = cmdTask
    /\ call.argv = <<<<"a">>, <<"-", "-", "t">>>>
    /\ 2 \in Examined(Plan, call.argv)
    /\ errors = <<ErrorText("Unknown option: %", <<"-", "-", "t">>)>>
    /\ ret = NoMapping

\* the command a first word names: the literal word if registered, else the
\* word with "/" before it when the word does not begin with "/"
NamedCommand(word) ==
    IF word \in Commands THEN word
    ELSE IF word[1] # "/" /\ (<<"/">> \o word) \in Commands
    THEN <<"/">> \o word
    ELSE <<>>

\* C13: dispatch of a line with no tokens does nothing; a first word that
\* names no command is reported as Unknown and no handler runs; otherwise
\* the handler of the named command runs once, with the remaining tokens
\* (a quoted "a 3" is one token)
C13_DispatchInvokesOnce ==
    (/\ phase = "returned"
     /\ op = "dispatch"
     /\ ShlexSplit(Strip(call.line)).ok)
    => LET parts == ShlexSplit(Strip(call.line)).parts
       IN /\ parts = <<>>
             => errors = <<>> /\ call.command = <<>> /\ unawaited = 0
          /\ (parts # <<>> /\ NamedCommand(parts[1]) = <<>>)
             => /\ errors = <<ErrorText("Unknown: %", parts[1])>>
                /\ call.command = <<>>
                /\ unawaited = 0
          /\ (parts # <<>> /\ NamedCommand(parts[1]) # <<>>)
             => /\ errors = <<>>
                /\ call.command = NamedCommand(parts[1])
                /\ call.argv = Tail(parts)
                /\ unawaited = 0
          /\ call.line = cmdSay \o <<" ", "\"", "a", " ", "3", "\"">>
             => call.argv = <<<<"a", " ", "3">>>>

\* the line does not tokenize (a quote is left open)
Untokenizable(line) == ~ShlexSplit(Strip(line)).ok

\* the last input the running App.run call read
LastInput == session.script[Len(session.script)]

\* C14: a line with an unterminated quote makes dispatch report a parse
\* error to the error sink, resolve no command and call no handler, and
\* raise nothing; the session that read the line goes on to the next line
C14_TokenizeErrorContinues ==
    /\ (phase = "returned" /\ op = "dispatch" /\ Untokenizable(call.line))
       => /\ Len(errors) = 1
          /\ errors[1].msg = "Parse error: %"
          /\ call.command = <<>>
          /\ unawaited = 0
          /\ raised = ""
    /\ (/\ session.kind = "run"
        /\ session.script # <<>>
        /\ ~LastInput.eof
        /\ StartsWith(Strip(LastInput.text), <<"/">>)
        /\ Untokenizable(LastInput.text))
       => session.status = "running"

\* the commands the transcript recorded, in order
IsRecord(e) == e.k = "record"
Recorded ==
    [j \in 1..Len(SelectSeq(events, IsRecord)) |->
        SelectSeq(events, IsRecord)[j].text]

\* the commands of a script that stand before its first quit line
RECURSIVE BeforeQuit(_)
BeforeQuit(commands) ==
    IF commands = <<>> \/ IsQuit(Head(commands)) THEN <<>>
    ELSE <<Head(commands)>> \o BeforeQuit(Tail(commands))

\* C19: a script run with fail_on_error=True stops at the first command
\* that reports an error (nothing later is recorded or executed, and a
\* command that reports none does not stop it); with fail_on_error=False
\* every command of the list is recorded and executed, in order
C19_ScriptHaltsOnFirstError ==
    (session.kind = "script" /\ session.status = "ended")
    => /\ session.fail_on_error
          => /\ \A i \in 1..Len(events) : \A j \in (i + 1)..Len(events) :
                   events[i].k = "err" => events[j].k # "record"
             /\ (\A i \in 1..Len(events) : events[i].k # "err")
                   => Recorded = BeforeQuit(session.script)
       /\ ~session.fail_on_error
          => /\ Recorded = BeforeQuit(session.script)
             /\ \A i \in 1..Len(events) : events[i].k # "coroutine"

\* the hook calls among the events, in order
IsHookCall(e) == e.k \in {"start", "before", "after"}
HookCalls == SelectSeq(events, IsHookCall)

\* the line an input stands for once stripped (end of input gives "")
LineOf(inp) == IF inp.eof THEN <<>> ELSE Strip(inp.text)

\* the input is a command line: it starts with "/" and is no quit word
IsCommandLine(inp) ==
    ~inp.eof /\ ~IsQuit(LineOf(inp)) /\ StartsWith(LineOf(inp), <<"/">>)

\* the before_prompt and after_prompt calls the inputs lead to, one pair per
\* line, handled being TRUE exactly for a command line
RECURSIVE HookPairs(_)
HookPairs(inputs) ==
    IF inputs = <<>> THEN <<>>
    ELSE <<Event("before", <<>>, FALSE),
           Event("after", LineOf(Head(inputs)), IsCommandLine(Head(inputs)))>>
         \o HookPairs(Tail(inputs))

\* C20: in App.run with hooks registered, on_start fires once and first;
\* every line read is preceded by before_prompt and followed by after_prompt
\* with the line and handled = (it starts with "/"), the command handler
\* running in between; the loop ends exactly on a quit line or end of input
C20_HooksInOrder ==
    (session.kind = "run" /\ session.hooks = {"start", "before", "after"})
    => /\ HookCalls = <<Event("start", <<>>, FALSE)>> \o HookPairs(session.script)
       /\ \A i \in 1..Len(events) : events[i].k # "coroutine"
       /\ session.status \in {"running", "ended"}
       /\ session.status = "ended"
          <=> /\ session.script # <<>>
              /\ (LastInput.eof \/ IsQuit(LineOf(LastInput)))

\* the argument words of a typed text
TypedWords(text) == Tail(StripNonEmpty(Split(LStrip(text), " ")))

\* the first typed argument word that is not a flag, "" when there is none
TypedParent(text) ==
    LET Plain(w) == ~StartsWith(w, <<"-", "-">>)
    IN IF SelectSeq(TypedWords(text), Plain) = <<>> THEN <<>>
       ELSE SelectSeq(TypedWords(text), Plain)[1]

\* the last call completed the dependent argument y of /set
CompletesChild ==
    /\ completion.kind = "value"
    /\ completion.command = cmdSet
    /\ completion.arg = y

\* C15: the dependent source of /set y reads its parent x from the values
\* scanned out of the text of the very call: the candidates are those of
\* the fetch table for the parent typed in that text that start with the
\* prefix, so `/set a ` gives exactly ab and 3, and `/set 3 ` gives exactly
\* 30, whatever call came before.
C15_DependentReadsTypedParent ==
    CompletesChild =>
        /\ completion.items =
               WithPrefix(Fetched(TagTable, TypedParent(completion.text)),
                          completion.prefix)
        /\ completion.text = cmdSet \o <<" ", "a", " ">>
               => completion.items = << <<"a", "b">>, <<"3">> >>
        /\ completion.text = cmdSet \o <<" ", "3", " ">>
               => completion.items = << <<"3", "0">> >>

\* the child was completed for the parent 3 with nothing typed of it yet
C15_Witness ==
    /\ CompletesChild
    /\ completion.text = cmdSet \o <<" ", "3", " ">>
    /\ completion.prefix = <<>>
    /\ completion.arg_values = (x :> One(<<"3">>))
    /\ completion.items = << <<"3", "0">> >>

\* the word being typed: the last word of the text, "" after a blank
InProgress(text) ==
    IF text = <<>> \/ text[Len(text)] = " " \/ TypedWords(text) = <<>>
    THEN <<>>
    ELSE TypedWords(text)[Len(TypedWords(text))]

\* the prefix of a word being typed: what follows "=" in a flag that has
\* one, the whole word otherwise
PrefixOf(word) ==
    IF StartsWith(word, <<"-", "-">>) /\ FirstIndex(word, "=") # 0
    THEN SubSeq(word, FirstIndex(word, "=") + 1, Len(word))
    ELSE word

\* C16: every argument-value candidate a call yields starts with the
\* completion prefix of the text of the call, whatever the suggestion
\* source and whatever the form of the word being typed.
C16_CandidatesStartWithPrefix ==
    completion.kind = "value" =>
        \A j \in 1..Len(completion.items) :
            StartsWith(completion.items[j],
                       PrefixOf(InProgress(completion.text)))

\* a completion plan as completion_plan builds it anew: no entry provided
Untouched(params) ==
    [k \in 1..Len(params) |->
        [name |-> params[k].name, flag |-> params[k].flag,
         repeat |-> params[k].repeat, provided |-> FALSE]]

\* what a first call on a new completer gives for the text
FirstCall(text, data) ==
    CompletionsFrom(text, data, [c \in Commands |-> Untouched(Registry[c])])

\* a step is a call of get_completions
IsCompletion ==
    /\ session.kind = "completer"
    /\ completion' # completion
    /\ history' = history

Suggested(text, data) ==
    {GetCompletions(text, data).items[j] :
        j \in 1..Len(GetCompletions(text, data).items)}

\* C18: once the handler of /task has been awaited with an argv that parse
\* accepts, binding the history=True argument x to v, a completion call on
\* `/task ` suggests v, a call on `/task 3` suggests v exactly when v starts
\* with 3, and a call for x of /ask does not suggest it.
C18_HistorySuggestedAfterRun ==
    [][(/\ phase = "idle" /\ phase' = "returned" /\ op' = "handler"
        /\ call'.command = cmdTask /\ ~ret'.isNone)
       => /\ PyStr(ret'.map[x]) \in Suggested(Text(cmdTask, <<>>, TRUE), history')
          /\ PyStr(ret'.map[x]) \in Suggested(Text(cmdTask, <<w3>>, FALSE), history')
                <=> StartsWith(PyStr(ret'.map[x]), w3)
          /\ PyStr(ret'.map[x]) \notin Suggested(Text(cmdAsk, <<>>, TRUE), history')]_vars

\* the ways to place the declarations of args in a plan of the same length
Placements(args) ==
    {f \in [1..Len(args) -> 1..Len(args)] :
        \A i, j \in 1..Len(args) : i # j => f[i] # f[j]}

\* C21: the plan from_args builds holds each declared argument exactly
\* once, the required declarations first and the optional ones after them,
\* each group in declaration order; a declaration is optional exactly when
\* it is an Opt or has a default that is not None; a required entry has no
\* flag and default None, an optional entry has the flag `--<name>`.
C21_PlanOrder ==
    plan.built =>
        /\ \E f \in Placements(plan.args) :
              /\ \A i \in 1..Len(plan.args) :
                    plan.params[f[i]].definition = plan.args[i]
              /\ \A i, j \in 1..Len(plan.args) :
                    (i < j /\ plan.params[f[i]].required
                                  = plan.params[f[j]].required)
                        => f[i] < f[j]
        /\ Len(plan.params) = Len(plan.args)
        /\ \A j, k \in 1..Len(plan.params) :
              (j < k /\ plan.params[k].required) => plan.params[j].required
        /\ \A k \in 1..Len(plan.params) :
              LET p == plan.params[k]
              IN /\ p.name = p.definition.name
                 /\ p.required
                        <=> ~(p.definition.opt \/ p.definition.default # None)
                 /\ p.required => (p.flag = NoFlag /\ p.default = None)
                 /\ ~p.required => p.flag = <<"-", "-">> \o p.name

\* from_args on [Opt y, Arg x, Arg h with default 0]: x first, then y and h
C21_Witness ==
    /\ plan.built
    /\ Len(plan.args) = 3
    /\ plan.args[1].name = y /\ plan.args[1].opt
    /\ plan.args[2].name = x
    /\ plan.args[3].name = h
    /\ plan.params[1].name = x /\ plan.params[1].required
    /\ plan.params[2].name = y /\ plan.params[2].flag = <<"-", "-", "y">>
    /\ plan.params[3].name = h /\ plan.params[3].default = One(IntVal(0))

\* what a call with the inputs of the last call gives on a plan compiled
\* anew from the same declarations
OnFreshPlan ==
    Parse(FromArgs(plan.args), plan.last.argv, plan.last.interactive,
          plan.last.has_prompt_fn, plan.last.answers)

Due(params, runtime, k) ==
    \/ ~runtime[k].provided /\ (params[k].required \/ params[k].prompt)
    \/ params[k].prompt /\ params[k].multiline

\* the names of the declarations to be resolved, in plan order
RECURSIVE DueNames(_, _, _)
DueNames(params, runtime, k) ==
    IF k > Len(params) THEN <<>>
    ELSE (IF Due(params, runtime, k) THEN <<params[k].name>> ELSE <<>>)
             \o DueNames(params, runtime, k + 1)

\* the names the last parse prompted for, in the order of the prompts
AskedNames == [j \in 1..Len(asked) |-> asked[j].name]

\* interactive resolution ran in the last parse: the scan succeeded, a
\* prompt function was there and something was to be resolved
Resolved ==
    /\ ParseRan
    /\ Resolving
    /\ ~Scanned.failed
    /\ DueNames(Plan, Scanned.runtime, 1) # <<>>

\* C23 as claimed: whenever interactive resolution runs, every declaration
\* to be resolved is prompted, once, in plan order, and no other
C23_AllDuePrompted ==
    Resolved => AskedNames = DueNames(Plan, Scanned.runtime, 1)

\* C23: the prompts of interactive resolution are, in plan order and once
\* each, the declarations to be resolved up to the first whose answer ends
\* the parse with an error (Canceled, Invalid value, Missing); they are all
\* of them when parse returns a mapping; and a parse that does not resolve
\* interactively prompts nothing.
C23_DuePromptedUntilError ==
    /\ (ParseRan /\ ~Resolved) => asked = <<>>
    /\ Resolved =>
          LET due == DueNames(Plan, Scanned.runtime, 1)
          IN /\ Len(asked) >= 1
             /\ Len(asked) <= Len(due)
             /\ AskedNames = SubSeq(due, 1, Len(asked))
             /\ ~ret.isNone => AskedNames = due
             /\ Len(asked) < Len(due) =>
                   /\ ret.isNone
                   /\ errors \in
                         { <<ErrorText("Canceled", <<>>)>>,
                           <<ErrorText("Invalid value for %",
                                       asked[Len(asked)].name)>>,
                           <<ErrorText("Missing: %",
                                       asked[Len(asked)].name)>> }

\* /open --h=3 a binds h, then x; the prompts are for x (multiline, set),
\* h (multiline, set) and t (unset), in plan order
C23_Witness ==
    /\ ParseRan
    /\ call.command = cmdOpen
    /\ call.argv = << <<"-", "-", "h", "=", "3">>, <<"a">> >>
    /\ AskedNames = <<x, h, t>>
    /\ ~ret.isNone

\* the entry the token at st.i is bound to, 0 when there is none: the entry
\* of its flag, or the entry under the positional cursor
TargetOf(params, argv, st) ==
    IF StartsWith(argv[st.i], <<"-", "-">>)
    THEN PlanByFlag(params, Partition(argv[st.i]).key)
    ELSE IF next_pos_index(st.runtime, st.pos_cursor) > Len(params) THEN 0
    ELSE next_pos_index(st.runtime, st.pos_cursor)

\* the tokens the scan binds to a multiline, non-repeat declaration: the
\* position, the entry, and whether it was reached by its flag
RECURSIVE SwallowsFrom(_, _, _)
SwallowsFrom(params, argv, st) ==
    IF st.failed \/ st.i > Len(argv) THEN {}
    ELSE UNION {
            (IF k # 0 /\ Swallows(params[k])
             THEN {[i |-> st.i, k |-> k,
                    flag |-> StartsWith(argv[st.i], <<"-", "-">>)]}
             ELSE {})
            \cup SwallowsFrom(params, argv, nxt) :
                k \in {TargetOf(params, argv, st)},
                nxt \in {ScanStep(params, argv, st)}}

\* C24: when the scan binds a token to a multiline, non-repeat declaration,
\* reached positionally or by its flag, that is the last token it examines
\* (nothing after it is bound elsewhere or reported as an unknown option),
\* and a declaration reached positionally has all the tokens from there on,
\* joined by single spaces, as its value.
C24_MultilineSwallowsRest ==
    ParseRan =>
        \A s \in SwallowsFrom(Plan, call.argv, ScanStart(Plan)) :
            /\ \A j \in Examined(Plan, call.argv) : j <= s.i
            /\ (~s.flag /\ ~Scanned.failed) =>
                  Scanned.values[Plan[s.k].name] =
                      One(Convert(Plan[s.k].convert,
                                  Join(SubSeq(call.argv, s.i, Len(call.argv)),
                                       <<" ">>)).v)

\* a call of get_completions was made on a text that names a command and
\* is past the command name
CompletesArgument ==
    /\ completion.at > 0
    /\ completion.kind # "command"
    /\ StripNonEmpty(Split(LStrip(completion.text), " ")) # <<>>

\* the command word of the text of the call
TypedCommand == StripNonEmpty(Split(LStrip(completion.text), " "))[1]

\* the completed argument words of the text: all but the word being typed
CompletedWords(text) ==
    IF text[Len(text)] = " " THEN TypedWords(text)
    ELSE SubSeq(TypedWords(text), 1, Len(TypedWords(text)) - 1)

\* the binding scan of the suggestion engine over the completed words only
CompletedScan(params, text) ==
    CompletionScan(params, CompletedWords(text),
                   CompletionStart(Untouched(params)))

\* every declaration is filled by the completed words
AllFilled(params, text) ==
    \A k \in 1..Len(params) : CompletedScan(params, text).entries[k].provided

IsFlagWord(w) == StartsWith(w, <<"-", "-">>)

\* C25: a call yields no candidate when the command is unknown, when the
\* word being typed is a `--name` that matches no flag of the plan, when
\* it is not a flag and the completed words already fill every declaration
\* (so nothing of a filled declaration is offered for an extra word), and
\* when the active declaration has no suggestion source.
C25_NoActiveNoCandidates ==
    CompletesArgument =>
        /\ resolve(TypedCommand) = <<>> => completion.items = <<>>
        /\ resolve(TypedCommand) # <<>> =>
              LET params == Registry[TypedCommand]
                  w == InProgress(completion.text)
              IN /\ (IsFlagWord(w) /\ PlanByFlag(params, Partition(w).key) = 0)
                        => completion.items = <<>>
                 /\ (~IsFlagWord(w) /\ AllFilled(params, completion.text))
                        => completion.items = <<>>
                 /\ (/\ completion.arg # <<>>
                     /\ GetCompleter(TypedCommand,
                            params[IndexOf(params, completion.arg)]).kind
                          = "none")
                        => completion.items = <<>>

\* the entry the last completed word of the text was bound to by the scan
\* of the suggestion engine, 0 when there is no such word or it was bound
\* to nothing
LastBound(params, text) ==
    LET done == CompletedWords(text)
        cs == CompletedScan(params, text)
    IN IF done = <<>> \/ cs.done THEN 0
       ELSE IF IsFlagWord(done[Len(done)])
               /\ PlanByFlag(params, Partition(done[Len(done)]).key) = 0
       THEN 0
       ELSE cs.last

\* the scan step of parse at st takes in the last token of argv
TakesLast(params, argv, st, nxt) ==
    IF ~nxt.failed THEN nxt.i > Len(argv)
    ELSE \/ st.i = Len(argv)
         \/ /\ st.i + 1 = Len(argv)
            /\ IsFlagWord(argv[st.i])
            /\ ~Partition(argv[st.i]).eq
            /\ PlanByFlag(params, Partition(argv[st.i]).key) # 0

\* the entry parse binds the last token of argv to: 0 when it reports too
\* many positional arguments for it, -1 when the scan fails before it
RECURSIVE ParseTarget(_, _, _)
ParseTarget(params, argv, st) ==
    IF st.failed \/ st.i > Len(argv) THEN 0 - 1
    ELSE LET nxt == ScanStep(params, argv, st)
         IN IF TakesLast(params, argv, st, nxt)
            THEN TargetOf(params, argv, st)
            ELSE ParseTarget(params, argv, nxt)

\* the name of entry k of params, "" for no entry
NameOf(params, k) == IF k = 0 THEN <<>> ELSE params[k].name

\* C26: when the last completed word was bound to a repeat declaration the
\* word being typed, the empty word after a blank included, has that
\* declaration as its active declaration; and the active declaration of a
\* word being typed that is not a flag is the declaration parse binds that
\* word to.
C26_ActiveIsParseTarget ==
    (CompletesArgument /\ resolve(TypedCommand) # <<>>
        /\ ~IsFlagWord(InProgress(completion.text))) =>
        LET params == Registry[TypedCommand]
            last == LastBound(params, completion.text)
            target == ParseTarget(params, TypedWords(completion.text),
                                  ScanStart(params))
        IN /\ (last # 0 /\ params[last].repeat)
                  => completion.arg = params[last].name
           /\ (InProgress(completion.text) # <<>> /\ target >= 0)
                  => completion.arg = NameOf(params, target)

\* the position in the add calls of the last add of value for the pair the
\* last get asked about, 0 when it was never added
LastAdd(value) ==
    IF \E j \in 1..Len(lookup.adds) :
          lookup.adds[j] = <<lookup.command, lookup.arg, value>>
    THEN CHOOSE j \in 1..Len(lookup.adds) :
            /\ lookup.adds[j] = <<lookup.command, lookup.arg, value>>
            /\ \A i \in (j + 1)..Len(lookup.adds) :
                  lookup.adds[i] # lookup.adds[j]
    ELSE 0

\* the values added for the pair the last get asked about
AddedValues ==
    {lookup.adds[j][3] : j \in {i \in 1..Len(lookup.adds) :
        lookup.adds[i][1] = lookup.command /\ lookup.adds[i][2] = lookup.arg}}

\* C27: get(command, arg, limit) returns at most limit values, no value
\* twice, each one added before for that very pair, the value added last
\* first (a value added again counts from its last add), and they are the
\* most recently added ones: as many as the limit allows, none of them
\* older than a value left out; adds for other pairs play no part.
C27_HistoryRecentFirst ==
    lookup.got =>
        LET r == lookup.result
        IN /\ Len(r) <= lookup.limit
           /\ \A i, j \in 1..Len(r) : i # j => r[i] # r[j]
           /\ \A i \in 1..Len(r) : r[i] \in AddedValues
           /\ \A i, j \in 1..Len(r) : i < j => LastAdd(r[i]) > LastAdd(r[j])
           /\ \/ Len(r) = lookup.limit
              \/ Len(r) = Cardinality(AddedValues)
           /\ \A v \in AddedValues :
                 (\A i \in 1..Len(r) : r[i] # v)
                     => \A i \in 1..Len(r) : LastAdd(v) < LastAdd(r[i])

\* a is added for /task x, then ab, then a value for another pair, then a
\* again: get(/task, x, 2) gives a, ab
C27_Witness ==
    /\ lookup.got
    /\ lookup.adds = << <<cmdTask, x, <<"a">> >>, <<cmdTask, x, <<"a", "b">> >>,
                        <<cmdAsk, x, <<"a">> >>, <<cmdTask, x, <<"a">> >> >>
    /\ lookup.command = cmdTask /\ lookup.arg = x /\ lookup.limit = 2
    /\ lookup.result = << <<"a">>, <<"a", "b">> >>

\* C28: a parse call ends in one of two ways: it returns a mapping and has
\* handed nothing to the error sink, or it returns no mapping and has
\* handed it exactly one text; whatever the tokens, the answers and the
\* interactive flag.
C28_OneErrorOrMapping ==
    ParseRan =>
        \/ ~ret.isNone /\ errors = <<>>
        \/ ret.isNone /\ Len(errors) = 1

\* a parse that bound tokens, prompted, and failed on the answer to its
\* second prompt, with that one error
C28_Witness ==
    /\ ParseRan
    /\ call.argv # <<>>
    /\ Len(asked) = 2
    /\ ret.isNone
    /\ errors = <<ErrorText("Invalid value for %", asked[2].name)>>

\* the binding state the last parse ended in
FinalRuntime ==
    Parse(Plan, call.argv, call.interactive, call.has_prompt_fn,
          call.answers).runtime

\* what an optional declaration holds when nothing is bound to it
Unbound(p) == IF p.repeat /\ p.default = None THEN List(<<>>) ELSE p.default

\* C29: a mapping parse returns has exactly the declaration names of the
\* plan as its keys; an optional declaration nothing was bound to holds its
\* default (an empty list for a repeat one without default), and a required
\* declaration holds a bound value: not None, and not an empty list.
C29_MappingComplete ==
    (ParseRan /\ ~ret.isNone) =>
        /\ DOMAIN ret.map = {Plan[k].name : k \in 1..Len(Plan)}
        /\ \A runtime \in {FinalRuntime} : \A k \in 1..Len(Plan) :
              /\ (~Plan[k].required /\ ~runtime[k].provided)
                    => ret.map[Plan[k].name] = Unbound(Plan[k])
              /\ Plan[k].required
                    => /\ runtime[k].provided
                       /\ ret.map[Plan[k].name] # None
                       /\ ret.map[Plan[k].name] # List(<<>>)

\* /ask with no token, interactive: x is bound by the answer a, h keeps its
\* default on an empty answer
C29_Witness ==
    /\ ParseRan
    /\ call.command = cmdAsk
    /\ call.argv = <<>>
    /\ call.interactive
    /\ call.answers = <<Answer(<<"a">>), Answer(<<>>)>>
    /\ ret = Mapping((x :> One(StrVal(<<"a">>))) @@ (h :> One(IntVal(1))))

\* the raw values the scan takes from the occurrences of the flag of entry
\* k, in the order of the tokens
RECURSIVE FlagValues(_, _, _, _)
FlagValues(params, argv, st, k) ==
    IF st.failed \/ st.i > Len(argv) THEN <<>>
    ELSE (IF IsFlagWord(argv[st.i])
             /\ PlanByFlag(params, Partition(argv[st.i]).key) = k
          THEN IF Partition(argv[st.i]).eq
               THEN <<Partition(argv[st.i]).val>>
               ELSE IF st.i < Len(argv) THEN <<argv[st.i + 1]>> ELSE <<>>
          ELSE <<>>)
         \o FlagValues(params, argv, ScanStep(params, argv, st), k)

\* the scan binds a token that is not a flag to entry k
RECURSIVE BoundPositionally(_, _, _, _)
BoundPositionally(params, argv, st, k) ==
    IF st.failed \/ st.i > Len(argv) THEN FALSE
    ELSE \/ ~IsFlagWord(argv[st.i]) /\ TargetOf(params, argv, st) = k
         \/ BoundPositionally(params, argv, ScanStep(params, argv, st), k)

\* an optional repeat declaration with a default that is not empty, and
\* that is not prompted for
HasListDefault(p) ==
    ~p.required /\ p.repeat /\ ~p.prompt /\ NonEmptyVal(p.default)

\* C30: for an optional repeat declaration with a non-empty default, a
\* parse that supplies `--name` occurrences returns for it exactly the
\* supplied values in the order of the tokens, without the elements of the
\* default; the default is returned only when no occurrence is supplied.
C30_SuppliedReplaceDefault ==
    (ParseRan /\ ~ret.isNone) =>
        \A k \in 1..Len(Plan) :
            (/\ HasListDefault(Plan[k])
             /\ ~BoundPositionally(Plan, call.argv, ScanStart(Plan), k)) =>
                \A raws \in {FlagValues(Plan, call.argv, ScanStart(Plan), k)} :
                    ret.map[Plan[k].name] =
                        IF raws = <<>> THEN Plan[k].default
                        ELSE List([j \in 1..Len(raws) |->
                                      Convert(Plan[k].convert, raws[j]).v])
====
